---- MODULE Spec2Model ----
(***************************************************************************)
(* State-machine model of the annotation store of labelImg                 *)
(* (src/labelImg/labelImg.py, class MainWindow).                            *)
(*                                                                         *)
(* Every handler of MainWindow is a pure operator on a record `s` holding  *)
(* the fields of the window (named as in the source); the handler's calls  *)
(* compose as operator applications, so an action is the whole handler.    *)
(* The Canvas, the Shape class, LabelFile and the three readers/writers    *)
(* live in libs/ and are not part of src/: their operations are modelled   *)
(* from the specification and are marked as such where they are defined.   *)
(*                                                                         *)
(* A shape is an object identity (ShapeIds) with a label and a position    *)
(* (the box is abstracted to one coordinate in 0..ImgSize); a list row is  *)
(* an item identity (ItemIds) with a text.                                  *)
(***************************************************************************)
EXTENDS Integers, Sequences, FiniteSets, TLC

VARIABLES
    canvas_shapes,            \* canvas.shapes: sequence of shape identities (z-order)
    obj,                      \* the live Shape objects: identity -> [label, pos,
                              \*   line_color, fill_color, visible]
    selected_shapes,          \* canvas.selected_shapes
    canvas_enabled,           \* canvas.isEnabled()
    shapes_to_items,          \* self.shapes_to_items
    items_to_shapes,          \* self.items_to_shapes
    label_list,               \* rows of self.label_list (item identities, in order)
    item_text,                \* item.text() of every live item
    item_flags,               \* of every live item: [checked, hidden, background]
    class_visibility_list,    \* rows of self.class_visibility_list: [name, checked]
    file_path,                \* self.file_path
    dirty,                    \* self.dirty
    save_enabled,             \* self.actions.save.isEnabled()
    label_hist,               \* self.label_hist
    class_colors,             \* self.class_colors: class name -> colour
    label_file_format,        \* self.label_file_format
    suffix,                   \* LabelFile.suffix
    clipboard,                \* self.clipboard: sequence of shape identities
    clipboard_source_image,   \* self.clipboard_source_image
    default_save_dir,         \* self.default_save_dir
    m_img_list,               \* self.m_img_list
    cur_img_idx,              \* self.cur_img_idx
    img_count,                \* self.img_count
    last_open_dir,            \* self.last_open_dir
    dir_name,                 \* self.dir_name
    prev_label_text,          \* self.prev_label_text
    dir_files,                \* the image files that exist in the directory Dir, sorted
    auto_saving,              \* self.auto_saving.isChecked()
    label_file,               \* self.label_file: None or a LabelFile
    paste_enabled,            \* self.actions.pasteSelection.isEnabled()
    copy_selection_enabled,   \* self.actions.copySelection.isEnabled()
    shapes_present_enabled,   \* the actions of onShapesPresent are enabled
    last,                     \* what the last handler did (its name, result, error)
    snap,                     \* the store as it was before the last add_label
    steps,                    \* handlers run so far in the session
    codec                     \* a call of a function of the file formats that is
                              \*   examined on its own: its arguments and its result

window == << canvas_shapes, obj, selected_shapes, canvas_enabled, shapes_to_items,
           items_to_shapes, label_list, item_text, file_path, dirty, save_enabled,
           label_hist, label_file_format, clipboard, clipboard_source_image,
           default_save_dir, m_img_list, cur_img_idx, img_count, auto_saving,
           label_file, paste_enabled, item_flags, class_visibility_list, suffix,
           copy_selection_enabled, shapes_present_enabled, class_colors,
           last_open_dir, dir_name, dir_files, prev_label_text, last, snap,
           steps >>

vars == << window, codec >>

----------------------------------------------------------------------------
(* Bounds of the model *)

MaxShapes == 3      \* live Shape objects (and list rows) at any time
ImgSize   == 1      \* coordinates of the image are 0..ImgSize
NImages   == 2      \* images of the opened directory
MaxLines  == 1      \* lines (objects) of an annotation file that is read
MaxSteps  == 4      \* handlers run in a session of the window
MaxDirSteps == 3    \* a directory is opened among the first handlers of a session

None      == "None"                  \* Python's None where a string is expected
NoShape   == 0                       \* Python's None where a Shape is expected
NoPath    == 0                       \* Python's None where an image path is expected
Dir       == "dir"                   \* the directory that is opened
OtherDir  == "other"                 \* another directory, with one image
CurDir    == "."                     \* the working directory, with no image
ShapeIds  == 1..MaxShapes
ItemIds   == 1..MaxShapes
Images    == 1..NImages
MaxImages == NImages + 1             \* images of the largest directory that is walked through
OtherImage == MaxImages + 1          \* the image file of OtherDir
Pos       == 0..ImgSize
FilePos   == {0, ImgSize + 1}          \* a coordinate of a file: inside, or outside the image
Labels    == {"cat", "dog"}
PASCAL_VOC == "PascalVOC"
YOLO       == "YOLO"
CREATE_ML  == "CreateML"
XML_EXT    == ".xml"
TXT_EXT    == ".txt"
JSON_EXT   == ".json"
\* the "Show All" row of the class visibility list: its class name is empty
ShowAllItem == [ name |-> "", checked |-> TRUE ]
Formats   == {PASCAL_VOC, YOLO, CREATE_ML}

----------------------------------------------------------------------------
(* Helpers for Python lists and dicts *)

EmptyMap == << >>

Range(f) == { f[x] : x \in DOMAIN f }

\* d[k] = v
DictSet(d, k, v) == [ x \in (DOMAIN d) \cup {k} |-> IF x = k THEN v ELSE d[x] ]

\* del d[k]
DictDel(d, k) == [ x \in (DOMAIN d) \ {k} |-> d[x] ]

\* list.remove(x) / QListWidget.takeItem(row(x)) for a list without duplicates
ListRemove(l, x) == SelectSeq(l, LAMBDA y : y # x)

InList(l, x) == \E i \in 1..Len(l) : l[i] = x

\* list.index(x), from 0
IndexOf(l, x) == (CHOOSE i \in 1..Len(l) : l[i] = x) - 1

Min(S) == CHOOSE x \in S : \A y \in S : x <= y

\* identity of a newly constructed object
NewId(pool, used) == Min(pool \ used)

----------------------------------------------------------------------------
(* The window as one record, and the record written back to the variables *)

S == [ canvas_shapes |-> canvas_shapes, obj |-> obj,
       selected_shapes |-> selected_shapes, canvas_enabled |-> canvas_enabled,
       shapes_to_items |-> shapes_to_items, items_to_shapes |-> items_to_shapes,
       label_list |-> label_list, item_text |-> item_text,
       file_path |-> file_path, dirty |-> dirty, save_enabled |-> save_enabled,
       label_hist |-> label_hist, label_file_format |-> label_file_format,
       clipboard |-> clipboard, clipboard_source_image |-> clipboard_source_image,
       default_save_dir |-> default_save_dir, m_img_list |-> m_img_list,
       cur_img_idx |-> cur_img_idx, img_count |-> img_count,
       auto_saving |-> auto_saving, label_file |-> label_file,
       paste_enabled |-> paste_enabled,
       item_flags |-> item_flags, class_visibility_list |-> class_visibility_list,
       suffix |-> suffix, copy_selection_enabled |-> copy_selection_enabled,
       shapes_present_enabled |-> shapes_present_enabled,
       class_colors |-> class_colors,
       last_open_dir |-> last_open_dir, dir_name |-> dir_name, dir_files |-> dir_files,
       prev_label_text |-> prev_label_text,
       last |-> last, snap |-> snap ]

\* Objects nobody refers to any more are gone (reference counting).
Collect(s) ==
    LET shapes == Range(s.canvas_shapes) \cup DOMAIN s.shapes_to_items
                      \cup Range(s.items_to_shapes) \cup Range(s.clipboard)
        items  == Range(s.label_list) \cup DOMAIN s.items_to_shapes
                      \cup Range(s.shapes_to_items)
    IN [ s EXCEPT !.obj = [ x \in shapes \cap DOMAIN s.obj |-> s.obj[x] ],
                  !.item_text = [ i \in items \cap DOMAIN s.item_text |-> s.item_text[i] ],
                  !.item_flags = [ i \in items \cap DOMAIN s.item_flags |-> s.item_flags[i] ] ]

\* The handler returns: what it leaves behind
Return(s) == [ Collect(s) EXCEPT !.last.nprompts = 0 ]

\* The handler's result becomes the next state.
Write(r0) ==
    \E r \in { Return(r0) } :
       /\ canvas_shapes' = r.canvas_shapes
       /\ obj' = r.obj
       /\ selected_shapes' = r.selected_shapes
       /\ canvas_enabled' = r.canvas_enabled
       /\ shapes_to_items' = r.shapes_to_items
       /\ items_to_shapes' = r.items_to_shapes
       /\ label_list' = r.label_list
       /\ item_text' = r.item_text
       /\ file_path' = r.file_path
       /\ dirty' = r.dirty
       /\ save_enabled' = r.save_enabled
       /\ label_hist' = r.label_hist
       /\ label_file_format' = r.label_file_format
       /\ clipboard' = r.clipboard
       /\ clipboard_source_image' = r.clipboard_source_image
       /\ default_save_dir' = r.default_save_dir
       /\ m_img_list' = r.m_img_list
       /\ cur_img_idx' = r.cur_img_idx
       /\ img_count' = r.img_count
       /\ auto_saving' = r.auto_saving
       /\ label_file' = r.label_file
       /\ paste_enabled' = r.paste_enabled
       /\ item_flags' = r.item_flags
       /\ class_visibility_list' = r.class_visibility_list
       /\ suffix' = r.suffix
       /\ copy_selection_enabled' = r.copy_selection_enabled
       /\ shapes_present_enabled' = r.shapes_present_enabled
       /\ last' = r.last
       /\ class_colors' = r.class_colors
       /\ last_open_dir' = r.last_open_dir
       /\ dir_name' = r.dir_name
       /\ dir_files' = r.dir_files
       /\ prev_label_text' = r.prev_label_text
       /\ snap' = r.snap
       /\ codec' = codec

\* A handler of the session has run.
Apply(r) == steps' = steps + 1 /\ Write(r)

\* The record of a handler that starts: nothing returned, raised or written yet.
\*   op       the handler
\*   arg      the shape it was called with (store operations) or whose row is
\*            edited (edit_label), else NoShape
\*   ok       the value load_file returned: "True", "False", or None when not called
\*   err      the exception that left the handler, else None
\*   snapped  load_labels moved a point into the image
\*   nwrites  calls of a writer (save_*_format) made by the handler
\*   wrote    result of the last such call: None, "ok" or "fail"
\*   reported error_message was shown
\*   cleaned  result of the write that cleans a YOLO file of invalid class
\*            indices: None, "ok" or "fail"
\*   nprompts unsaved-changes prompts shown by the handler
\*   undo     remove_label undid the add_label made just before it
\*   autosave the result of the save made before a navigation, None when none was made
\*   answer   the answer given to the first unsaved-changes prompt of the handler
\*   yolo     what load_yolo_txt_by_filename read and reports: the class indices of
\*            the lines, the length of the class list, invalid_classes and
\*            total_invalid; whether a YOLO file was read at all
\*   read     the shapes load_labels was called with, as the reader returned them
\*   input    what the handler was given: the text of the "Image #" field
\*            (go_to_image), the path (load_recent, file_item_double_clicked),
\*            dir_path and silent (open_dir_dialog), the text of the label
\*            dialog and the reply to 'Add New Class' (new_shape)
\*   found    the formats of the annotation files that exist for the image that
\*            show_bounding_box_from_annotation_file is called for
\*   pasted   shapes that paste_selected_boxes pasted
\*   skipped  skipped_count of paste_selected_boxes, shown in the status bar
Started(op) == [ op |-> op, arg |-> NoShape, ok |-> None, err |-> None, snapped |-> FALSE,
                 nwrites |-> 0, wrote |-> None, reported |-> FALSE, cleaned |-> None,
                 nprompts |-> 0, undo |-> FALSE, pasted |-> 0, skipped |-> 0,
                 read |-> << >>, autosave |-> None, answer |-> None,
                 input |-> [ kind |-> None, n |-> 0, text |-> None ], found |-> {},
                 yolo |-> [ was_read |-> FALSE, indices |-> << >>, nclasses |-> 0,
                            invalid |-> EmptyMap, total |-> 0 ] ]

Begin(s, op) == [ s EXCEPT !.last = Started(op) ]

Raise(s, e) == [ s EXCEPT !.last.err = e ]

Raised(s) == s.last.err # None

\* The store proper: the two maps and the rows with their texts.
StoreOf(s) == [ shapes_to_items |-> s.shapes_to_items,
                items_to_shapes |-> s.items_to_shapes,
                label_list |-> s.label_list,
                rows |-> [ i \in 1..Len(s.label_list) |-> s.item_text[s.label_list[i]] ] ]

----------------------------------------------------------------------------
(* Dirty flag and Save action: set_dirty, set_clean, toggle_actions *)

set_dirty(s) == [ s EXCEPT !.dirty = TRUE, !.save_enabled = TRUE ]

set_clean_forgets_action(s) == [ s EXCEPT !.dirty = FALSE ]

set_clean(s) == [ s EXCEPT !.dirty = FALSE, !.save_enabled = FALSE ]

\* onLoadActive = (close, create, create_mode, edit_mode, paste_selection);
\* the Save action is in none of the toggled groups.
toggle_actions(s, value) == [ s EXCEPT !.paste_enabled = value ]

----------------------------------------------------------------------------
(* Canvas operations (libs/canvas.py), modelled from the specification *)

\* Canvas.reset_state: the per-image state of the canvas is dropped.
canvas_reset_state(s) ==
    [ s EXCEPT !.canvas_shapes = << >>, !.selected_shapes = {} ]

\* generate_color_by_text(text) of libs/utils.py: a colour computed from the text
generate_color_by_text(text) == << "hash", text >>

\* self.class_colors.get(label, generate_color_by_text(label)); class_colors is
\* empty after construction and is filled only in the colour palette dialog
ClassColor(s, label) ==
    IF label \in DOMAIN s.class_colors THEN s.class_colors[label]
    ELSE generate_color_by_text(label)

\* Shape.line_color, Shape.fill_color: the colours of the class Shape
DEFAULT_LINE_COLOR == << "default", "line" >>
DEFAULT_FILL_COLOR == << "default", "fill" >>

\* Shape(label=...) with its points: a new object, visible until it is hidden
NewShape(s, id, label, pos) ==
    [ s EXCEPT !.obj = DictSet(s.obj, id,
                               [ label |-> label, pos |-> pos,
                                 line_color |-> DEFAULT_LINE_COLOR,
                                 fill_color |-> DEFAULT_FILL_COLOR,
                                 visible |-> TRUE ]) ]

\* Shape.copy(): a new object with the label and the colours of shape, at pos
CopyOf(s, id, shape, pos) ==
    [ s EXCEPT !.obj = DictSet(s.obj, id, [ s.obj[shape] EXCEPT !.pos = pos,
                                                                  !.visible = TRUE ]) ]

\* Canvas.set_shape_visible(shape, value)
canvas_set_shape_visible(s, shape, value) == [ s EXCEPT !.obj[shape].visible = value ]

----------------------------------------------------------------------------
(* The store: reset_state, add_label, remove_label *)

reset_state_clears_clipboard(s) ==
    Collect(canvas_reset_state(
        [ s EXCEPT !.items_to_shapes = EmptyMap,
                   !.shapes_to_items = EmptyMap,
                   !.label_list = << >>,
                   !.file_path = NoPath,
                   !.label_file = None,
                   !.clipboard = << >>,
                   !.clipboard_source_image = NoPath ]))

reset_state_keeps_rows(s) ==
    Collect(canvas_reset_state([ s EXCEPT !.file_path = NoPath, !.label_file = None ]))

reset_state(s) ==
    Collect(canvas_reset_state(
        [ s EXCEPT !.items_to_shapes = EmptyMap,
                   !.shapes_to_items = EmptyMap,
                   !.label_list = << >>,
                   !.file_path = NoPath,
                   !.label_file = None ]))

\* a class is added to the class visibility list, unchecked, unless it has a row
update_class_visibility_list(s, class_name) ==
    IF \E i \in 1..Len(s.class_visibility_list) :
           s.class_visibility_list[i].name = class_name
    THEN s
    ELSE [ s EXCEPT !.class_visibility_list =
               Append(s.class_visibility_list, [ name |-> class_name, checked |-> FALSE ]) ]

\* HashableQListWidgetItem(shape.label), checked, with the colour of the class
NewItem(s, item, label) ==
    [ s EXCEPT !.item_text = DictSet(s.item_text, item, label),
               !.item_flags = DictSet(s.item_flags, item,
                                      [ checked |-> TRUE, hidden |-> FALSE,
                                        background |-> ClassColor(s, label) ]) ]

add_label_forgets_shape(s, shape) ==
    IF shape = NoShape
    THEN Raise(s, "AttributeError")
    ELSE LET item == NewId(ItemIds, DOMAIN s.items_to_shapes)
             s1 == NewItem(s, item, s.obj[shape].label)
         IN update_class_visibility_list(
                [ s1 EXCEPT !.items_to_shapes = DictSet(s.items_to_shapes, item, shape),
                            !.label_list = Append(s.label_list, item),
                            !.shapes_present_enabled = TRUE ],
                s.obj[shape].label)

add_label(s, shape) ==
    IF shape = NoShape
    THEN Raise(s, "AttributeError")           \* shape.paint_label on None
    ELSE LET item == NewId(ItemIds, DOMAIN s.items_to_shapes)
             s1 == NewItem(s, item, s.obj[shape].label)
         IN update_class_visibility_list(
                [ s1 EXCEPT !.items_to_shapes = DictSet(s.items_to_shapes, item, shape),
                            !.shapes_to_items = DictSet(s.shapes_to_items, shape, item),
                            !.label_list = Append(s.label_list, item),
                            !.shapes_present_enabled = TRUE ],
                s.obj[shape].label)

remove_label_keeps_item(s, shape) ==
    IF shape = NoShape \/ shape \notin DOMAIN s.shapes_to_items THEN s
    ELSE LET item == s.shapes_to_items[shape]
         IN [ s EXCEPT !.label_list = ListRemove(s.label_list, item),
                       !.shapes_to_items = DictDel(s.shapes_to_items, shape) ]

remove_label(s, shape) ==
    IF shape = NoShape THEN s
    ELSE IF shape \notin DOMAIN s.shapes_to_items
    THEN Raise(s, "KeyError")                 \* self.shapes_to_items[shape]
    ELSE LET item == s.shapes_to_items[shape]
         IN Collect([ s EXCEPT !.label_list = ListRemove(s.label_list, item),
                               !.shapes_to_items = DictDel(s.shapes_to_items, shape),
                               !.items_to_shapes = DictDel(s.items_to_shapes, item) ])

----------------------------------------------------------------------------
(* What the environment supplies to a handler (the record `io`):             *)
(*   answer1, answer2  the user's answers to the unsaved-changes prompt       *)
(*                     (first prompt of the handler, later prompts)           *)
(*   write1, write2    result of the writer calls (first call, later calls)   *)
(*   savedlg           the path picked in the Save dialog ("" when cancelled) *)
(*   dirpick           the directory picked in the Save-directory dialog      *)
(*   kind              what is found at the path that is loaded               *)
(*   present           the annotation files that exist for the image          *)
(*   lines             the objects of the annotation file that is read        *)
(*   classes           the lines of the classes file of an opened directory   *)

Answers   == {"Yes", "No", "Cancel"}
WriteRes  == {"ok", "fail"}
FileKinds == {"image", "nullimage", "badlabel", "missing"}

\* sequences over A of one to n elements
SeqUpTo(A, n) == UNION { [ 1..k -> A ] : k \in 1..n }

\* An annotation file names a class the predefined classes need not hold: the
\* second one, by name or (YOLO) by index.
FileLabels == {"dog"}
MaxClassIdx == 1

\* an <object> of a PascalVOC file / an annotation of a CreateML file
NamedLine == [ label : FileLabels, pos : FilePos ]

\* a line of a YOLO file: class index and box
YoloLine  == [ idx : {MaxClassIdx}, pos : FilePos ]

\* the contents an annotation file of the format can have
LinesOf(format) ==
    IF format = YOLO THEN SeqUpTo(YoloLine, MaxLines)
    ELSE IF format = None THEN { << >> }
    ELSE SeqUpTo(NamedLine, MaxLines)

NoIO == [ answer1 |-> "Cancel", answer2 |-> "Cancel", write1 |-> "ok", write2 |-> "ok",
          savedlg |-> "", dirpick |-> "", kind |-> "missing", present |-> {},
          lines |-> << >>, classes |-> << >> ]

----------------------------------------------------------------------------
(* Readers (libs/pascal_voc_io.py, yolo_io.py, create_ml_io.py), modelled   *)
(* from the specification: get_shapes() as a sequence of [label, pos].       *)

\* PascalVocReader.get_shapes / CreateMLReader.get_shapes
NamedReader_get_shapes(lines) == lines

\* YoloReader: the class list is the label history; a line whose index is
\* outside [0, len(classes)) is dropped and counted.
YoloValid(classes, line) == line.idx < Len(classes)

YoloReader_get_shapes(classes, lines) ==
    LET kept == SelectSeq(lines, LAMBDA l : YoloValid(classes, l))
    IN [ i \in 1..Len(kept) |-> [ label |-> classes[kept[i].idx + 1], pos |-> kept[i].pos ] ]

\* YoloReader.invalid_classes: class index -> number of lines dropped for it
YoloReader_invalid_classes(classes, lines) ==
    LET bad == SelectSeq(lines, LAMBDA l : ~YoloValid(classes, l))
    IN [ k \in { bad[i].idx : i \in 1..Len(bad) } |->
             Len(SelectSeq(bad, LAMBDA l : l.idx = k)) ]

----------------------------------------------------------------------------
(* Canvas operations used by the loaders *)

Clamp(x) == IF x < 0 THEN 0 ELSE IF x > ImgSize THEN ImgSize ELSE x

\* Canvas.snap_point_to_canvas: the point moved into the image, and whether it moved
snap_point_to_canvas(x) == [ x |-> Clamp(x), snapped |-> Clamp(x) # x ]

\* Canvas.load_shapes(s): the canvas shows the list it is given
canvas_load_shapes(s, shapes) ==
    [ s EXCEPT !.canvas_shapes = shapes,
               !.selected_shapes = s.selected_shapes \cap Range(shapes) ]

\* Canvas.select_shape(shape), whose selectionChanged signal ends in
\* shape_selection_changed
canvas_select_shape(s, shape) ==
    [ s EXCEPT !.selected_shapes = {shape}, !.copy_selection_enabled = TRUE ]

----------------------------------------------------------------------------
(* Rows of the label list and the class visibility filter: label_item_changed, *)
(* class_visibility_changed, class_visibility_item_clicked, toggle_polygons   *)

\* label_list.itemChanged: the text, the check state or the background of the
\* row has changed
label_item_changed(s, item) ==
    LET shape == s.items_to_shapes[item]
    IN IF s.item_text[item] # s.obj[shape].label
       THEN set_dirty([ s EXCEPT !.obj[shape].label = s.item_text[item],
                                 !.obj[shape].line_color = ClassColor(s, s.item_text[item]) ])
       ELSE canvas_set_shape_visible(s, shape, s.item_flags[item].checked)

\* item.setCheckState(value): itemChanged is emitted when the state changes
setCheckState(s, item, value) ==
    IF s.item_flags[item].checked = value THEN s
    ELSE label_item_changed([ s EXCEPT !.item_flags[item].checked = value ], item)

\* the checked rows of the class visibility list
ShowAllChecked(s) ==
    \E i \in 1..Len(s.class_visibility_list) :
        s.class_visibility_list[i].name = "" /\ s.class_visibility_list[i].checked

SelectedClasses(s) ==
    { s.class_visibility_list[i].name : i \in { j \in 1..Len(s.class_visibility_list) :
                                                   s.class_visibility_list[j].checked } }

ShouldShow(s, item) == ShowAllChecked(s) \/ s.item_text[item] \in SelectedClasses(s)

RECURSIVE class_visibility_rows_toggles_check(_, _)
class_visibility_rows_toggles_check(s, i) ==
    IF i > Len(s.label_list) THEN s
    ELSE LET label_item == s.label_list[i]
             should_show == ShouldShow(s, label_item)
             s1 == [ s EXCEPT !.item_flags[label_item].hidden = ~should_show ]
             s2 == IF label_item \in DOMAIN s1.items_to_shapes
                   THEN IF should_show
                        THEN setCheckState(s1, label_item, ~s1.item_flags[label_item].checked)
                        ELSE canvas_set_shape_visible(s1, s1.items_to_shapes[label_item],
                                                      FALSE)
                   ELSE s1
         IN class_visibility_rows_toggles_check(s2, i + 1)

\* the loop of class_visibility_changed over the rows of the label list
RECURSIVE class_visibility_rows(_, _)
class_visibility_rows(s, i) ==
    IF i > Len(s.label_list) THEN s
    ELSE LET label_item == s.label_list[i]
             should_show == ShouldShow(s, label_item)
             s1 == [ s EXCEPT !.item_flags[label_item].hidden = ~should_show ]
             s2 == IF label_item \in DOMAIN s1.items_to_shapes
                   THEN IF should_show
                        THEN canvas_set_shape_visible(setCheckState(s1, label_item, TRUE),
                                                      s1.items_to_shapes[label_item], TRUE)
                        ELSE canvas_set_shape_visible(s1, s1.items_to_shapes[label_item],
                                                      FALSE)
                   ELSE s1
         IN class_visibility_rows(s2, i + 1)

class_visibility_changed(s) == class_visibility_rows(s, 1)

\* a click on row i of the class visibility list toggles its check box;
\* itemChanged calls class_visibility_changed
class_visibility_item_clicked(s, i) ==
    class_visibility_changed(
        [ s EXCEPT !.class_visibility_list[i].checked = ~s.class_visibility_list[i].checked ])

\* Show all / Hide all boxes: every row of items_to_shapes is checked or unchecked
RECURSIVE toggle_polygons_rows(_, _, _)
toggle_polygons_rows(s, value, i) ==
    IF i > Len(s.label_list) THEN s
    ELSE toggle_polygons_rows(
             IF s.label_list[i] \in DOMAIN s.items_to_shapes
             THEN setCheckState(s, s.label_list[i], value) ELSE s,
             value, i + 1)

toggle_polygons(s, value) == toggle_polygons_rows(s, value, 1)

----------------------------------------------------------------------------
(* set_format, load_labels *)

SuffixOf(save_format) ==
    IF save_format = PASCAL_VOC THEN XML_EXT
    ELSE IF save_format = YOLO THEN TXT_EXT
    ELSE JSON_EXT

set_format(s, save_format) ==
    [ s EXCEPT !.label_file_format = save_format, !.suffix = SuffixOf(save_format) ]

RECURSIVE load_labels_loop_always_dirty(_, _, _, _)
load_labels_loop_always_dirty(s, shapes, i, acc) ==
    IF i > Len(shapes) THEN [ s |-> s, acc |-> acc ]
    ELSE LET id == NewId(ShapeIds, DOMAIN s.obj)
             pt == snap_point_to_canvas(shapes[i].pos)
             s1 == [ set_dirty(s) EXCEPT !.last.snapped = s.last.snapped \/ pt.snapped ]
             s2 == [ NewShape(s1, id, shapes[i].label, pt.x)
                         EXCEPT !.obj[id].line_color = ClassColor(s, shapes[i].label),
                                !.obj[id].fill_color = ClassColor(s, shapes[i].label) ]
         IN load_labels_loop_always_dirty(add_label(s2, id), shapes, i + 1, Append(acc, id))

RECURSIVE load_labels_loop(_, _, _, _)
load_labels_loop(s, shapes, i, acc) ==
    IF i > Len(shapes) THEN [ s |-> s, acc |-> acc ]
    ELSE LET id == NewId(ShapeIds, DOMAIN s.obj)
             pt == snap_point_to_canvas(shapes[i].pos)
             s1 == IF pt.snapped
                   THEN [ set_dirty(s) EXCEPT !.last.snapped = TRUE ]
                   ELSE s
             s2 == [ NewShape(s1, id, shapes[i].label, pt.x)
                         EXCEPT !.obj[id].line_color = ClassColor(s, shapes[i].label),
                                !.obj[id].fill_color = ClassColor(s, shapes[i].label) ]
         IN load_labels_loop(add_label(s2, id), shapes, i + 1, Append(acc, id))

load_labels(s, shapes) ==
    LET r == load_labels_loop([ s EXCEPT !.last.read = shapes ], shapes, 1, << >>)
    IN class_visibility_changed(Collect(canvas_load_shapes(r.s, r.acc)))

----------------------------------------------------------------------------
(* save_labels, _save_file, save_file, may_continue *)

\* the result of the next writer call of the handler
WriteResult(s, io) == IF s.last.nwrites = 0 THEN io.write1 ELSE io.write2

\* returns [s, ret]
save_labels(s, io) ==
    LET s1 == [ s EXCEPT !.label_file = "LabelFile",
                         !.last.nwrites = s.last.nwrites + 1,
                         !.last.wrote = WriteResult(s, io) ]
    IN IF WriteResult(s, io) = "ok"
       THEN [ s |-> s1, ret |-> TRUE ]
       ELSE [ s |-> [ s1 EXCEPT !.last.reported = TRUE ], ret |-> FALSE ]   \* LabelFileError

_save_file_always_clean(s, annotation_file_path, io) ==
    IF annotation_file_path # "" THEN set_clean(save_labels(s, io).s) ELSE s

_save_file(s, annotation_file_path, io) ==
    IF annotation_file_path # ""
    THEN LET r == save_labels(s, io)
         IN IF r.ret THEN set_clean(r.s) ELSE r.s
    ELSE s

save_file(s, io) ==
    IF s.default_save_dir # None
    THEN IF s.file_path # NoPath THEN _save_file(s, "saved_path", io) ELSE s
    ELSE IF s.file_path = NoPath
         THEN Raise(s, "TypeError")               \* os.path.dirname(None)
         ELSE _save_file(s, IF s.label_file # None THEN "saved_path" ELSE io.savedlg, io)

may_continue_ignores_cancel(s, io) ==
    IF ~s.dirty THEN [ s |-> s, ret |-> TRUE ]
    ELSE LET answer == IF s.last.nprompts = 0 THEN io.answer1 ELSE io.answer2
             s1 == [ s EXCEPT !.last.nprompts = s.last.nprompts + 1,
                              !.last.answer = IF s.last.answer = None THEN answer
                                              ELSE s.last.answer ]
         IN IF answer = "Yes" THEN [ s |-> save_file(s1, io), ret |-> TRUE ]
            ELSE [ s |-> s1, ret |-> TRUE ]

\* returns [s, ret]
may_continue(s, io) ==
    IF ~s.dirty THEN [ s |-> s, ret |-> TRUE ]
    ELSE LET answer == IF s.last.nprompts = 0 THEN io.answer1 ELSE io.answer2
             s1 == [ s EXCEPT !.last.nprompts = s.last.nprompts + 1,
                              !.last.answer = IF s.last.answer = None THEN answer
                                              ELSE s.last.answer ]
         IN IF answer = "No" THEN [ s |-> s1, ret |-> TRUE ]
            ELSE IF answer = "Yes" THEN [ s |-> save_file(s1, io), ret |-> TRUE ]
            ELSE [ s |-> s1, ret |-> FALSE ]

----------------------------------------------------------------------------
(* Loading annotations: load_*_by_filename, show_bounding_box_from_annotation_file *)

load_pascal_xml_by_filename_keeps_format(s, io) ==
    IF s.file_path = NoPath THEN s
    ELSE load_labels(s, NamedReader_get_shapes(io.lines))

load_pascal_xml_by_filename(s, io) ==
    IF s.file_path = NoPath THEN s
    ELSE load_labels(set_format(s, PASCAL_VOC), NamedReader_get_shapes(io.lines))

\* the loop over invalid_classes.items(): total_invalid += count
RECURSIVE total_invalid_counts_indices(_, _)
total_invalid_counts_indices(invalid_classes, keys) ==
    IF keys = {} THEN 0
    ELSE 1 + total_invalid_counts_indices(invalid_classes, keys \ {Min(keys)})

RECURSIVE total_invalid(_, _)
total_invalid(invalid_classes, keys) ==
    IF keys = {} THEN 0
    ELSE invalid_classes[Min(keys)]
             + total_invalid(invalid_classes, keys \ {Min(keys)})

load_yolo_txt_by_filename(s, io) ==
    IF s.file_path = NoPath THEN s
    ELSE LET invalid_classes == YoloReader_invalid_classes(s.label_hist, io.lines)
             s1 == load_labels(set_format(s, YOLO),
                               YoloReader_get_shapes(s.label_hist, io.lines))
             y  == [ was_read |-> TRUE,
                     indices |-> [ i \in 1..Len(io.lines) |-> io.lines[i].idx ],
                     nclasses |-> Len(s.label_hist),
                     invalid |-> invalid_classes,
                     total |-> total_invalid(invalid_classes, DOMAIN invalid_classes) ]
         IN IF DOMAIN invalid_classes # {}
            THEN LET s2 == save_file(s1, io)        \* then the message box
                 IN [ s2 EXCEPT !.last.cleaned = IF s2.last.nwrites > s1.last.nwrites
                                                 THEN s2.last.wrote ELSE None,
                                !.last.yolo = y ]
            ELSE [ s1 EXCEPT !.last.yolo = y ]

load_create_ml_json_by_filename(s, io) ==
    IF s.file_path = NoPath THEN s
    ELSE load_labels(set_format(s, CREATE_ML), NamedReader_get_shapes(io.lines))

AnnotationChoice_prefers_yolo(s, present) ==
    IF YOLO \in present THEN YOLO
    ELSE IF PASCAL_VOC \in present THEN PASCAL_VOC
    ELSE IF CREATE_ML \in present /\ s.default_save_dir # None THEN CREATE_ML
    ELSE None

\* the annotation file that is read: PascalVOC before YOLO before CreateML,
\* and CreateML only below a save directory
AnnotationChoice(s, present) ==
    IF PASCAL_VOC \in present THEN PASCAL_VOC
    ELSE IF YOLO \in present THEN YOLO
    ELSE IF CREATE_ML \in present /\ s.default_save_dir # None THEN CREATE_ML
    ELSE None

show_bounding_box_from_annotation_file(s0, io) ==
    LET s == [ s0 EXCEPT !.last.found = io.present ]
        f == AnnotationChoice(s, io.present)
    IN IF f = PASCAL_VOC THEN load_pascal_xml_by_filename(s, io)
       ELSE IF f = YOLO THEN load_yolo_txt_by_filename(s, io)
       ELSE IF f = CREATE_ML THEN load_create_ml_json_by_filename(s, io)
       ELSE s

----------------------------------------------------------------------------
(* load_file *)

\* the rows of the label list that are not hidden
VisibleRows(s) == SelectSeq(s.label_list, LAMBDA i : ~s.item_flags[i].hidden)

\* get_last_visible_label_item: the last row that is not hidden, made current:
\* label_selection_changed selects its shape on the canvas
select_last_item(s) ==
    IF Len(VisibleRows(s)) = 0 THEN s
    ELSE LET item == VisibleRows(s)[Len(VisibleRows(s))]
         IN IF item \in DOMAIN s.items_to_shapes
            THEN canvas_select_shape(s, s.items_to_shapes[item])
            ELSE s

\* os.path.exists of an image path
OnDisk(s, path) == path = OtherImage \/ InList(s.dir_files, path)

load_file(s, path, io) ==
    LET s1 == [ reset_state(s) EXCEPT !.canvas_enabled = FALSE ]
        \* a path that is not in the file list empties the list
        s2 == IF Len(s1.m_img_list) > 0 /\ ~InList(s1.m_img_list, path)
              THEN [ s1 EXCEPT !.m_img_list = << >> ]
              ELSE s1
    IN IF io.kind = "missing" \/ ~OnDisk(s, path)
       THEN [ s2 EXCEPT !.last.ok = "False" ]
       ELSE IF io.kind \in {"badlabel", "nullimage"}
       THEN [ s2 EXCEPT !.last.ok = "False", !.last.reported = TRUE ]
       ELSE LET s3 == [ set_clean([ s2 EXCEPT !.file_path = path ])
                            EXCEPT !.canvas_enabled = TRUE ]
                s4 == show_bounding_box_from_annotation_file(toggle_actions(s3, TRUE), io)
            IN IF Raised(s4) THEN s4
               ELSE [ select_last_item(s4) EXCEPT !.last.ok = "True" ]

----------------------------------------------------------------------------
(* Navigation: open_next_image, open_prev_image, import_dir_images, close_file *)

change_save_dir_dialog(s, io) ==
    IF io.dirpick # "" THEN [ s EXCEPT !.default_save_dir = io.dirpick ] ELSE s

\* the auto-save that opens open_next_image, open_prev_image and go_to_image;
\* returns [s, ret], ret = FALSE when the handler returns at once
auto_save_before_stops_on_failure(s, io) ==
    IF s.auto_saving
    THEN IF s.default_save_dir # None
         THEN IF s.dirty
              THEN LET s1 == save_file(s, io)
                   IN [ s |-> [ s1 EXCEPT !.last.autosave =
                                   IF s1.last.nwrites > s.last.nwrites
                                   THEN s1.last.wrote ELSE None ],
                        ret |-> ~s1.dirty ]
              ELSE [ s |-> s, ret |-> TRUE ]
         ELSE [ s |-> change_save_dir_dialog(s, io), ret |-> FALSE ]
    ELSE [ s |-> s, ret |-> TRUE ]

auto_save_before(s, io) ==
    IF s.auto_saving
    THEN IF s.default_save_dir # None
         THEN IF s.dirty
              THEN LET s1 == save_file(s, io)
                   IN [ s |-> [ s1 EXCEPT !.last.autosave =
                                   IF s1.last.nwrites > s.last.nwrites
                                   THEN s1.last.wrote ELSE None ],
                        ret |-> TRUE ]
              ELSE [ s |-> s, ret |-> TRUE ]
         ELSE [ s |-> change_save_dir_dialog(s, io), ret |-> FALSE ]
    ELSE [ s |-> s, ret |-> TRUE ]

open_next_image(s, io) ==
    LET a == auto_save_before(s, io)
    IN IF ~a.ret \/ Raised(a.s) THEN a.s
       ELSE LET m == may_continue(a.s, io)
            IN IF ~m.ret \/ Raised(m.s) THEN m.s
               ELSE IF m.s.img_count <= 0 THEN m.s
               ELSE IF m.s.file_path = NoPath
               THEN IF Len(m.s.m_img_list) = 0
                    THEN Raise(m.s, "IndexError")            \* self.m_img_list[0]
                    ELSE load_file([ m.s EXCEPT !.cur_img_idx = 0 ], m.s.m_img_list[1], io)
               ELSE IF m.s.cur_img_idx + 1 < m.s.img_count
               THEN IF m.s.cur_img_idx + 2 > Len(m.s.m_img_list)
                    THEN Raise([ m.s EXCEPT !.cur_img_idx = m.s.cur_img_idx + 1 ],
                               "IndexError")
                    ELSE load_file([ m.s EXCEPT !.cur_img_idx = m.s.cur_img_idx + 1 ],
                                   m.s.m_img_list[m.s.cur_img_idx + 2], io)
               ELSE m.s

open_prev_image(s, io) ==
    LET a == auto_save_before(s, io)
    IN IF ~a.ret \/ Raised(a.s) THEN a.s
       ELSE LET m == may_continue(a.s, io)
            IN IF ~m.ret \/ Raised(m.s) THEN m.s
               ELSE IF m.s.img_count <= 0 THEN m.s
               ELSE IF m.s.file_path = NoPath THEN m.s
               ELSE IF m.s.cur_img_idx - 1 >= 0
               THEN IF m.s.cur_img_idx > Len(m.s.m_img_list)
                    THEN Raise([ m.s EXCEPT !.cur_img_idx = m.s.cur_img_idx - 1 ],
                               "IndexError")
                    ELSE load_file([ m.s EXCEPT !.cur_img_idx = m.s.cur_img_idx - 1 ],
                                   m.s.m_img_list[m.s.cur_img_idx], io)
               ELSE m.s

\* what is typed into the "Image #" field: nothing, a text that is not a number,
\* or a number
GoInputs ==
    { [ kind |-> "empty", n |-> 0 ], [ kind |-> "text", n |-> 0 ] }
    \cup { [ kind |-> "int", n |-> k ] : k \in 0..(NImages + 1) }

CapImageNum_without_ceiling(n, count) == IF n > 1 THEN n ELSE 1

\* max(1, min(image_num, self.img_count))
CapImageNum(n, count) ==
    LET m == IF n < count THEN n ELSE count
    IN IF m > 1 THEN m ELSE 1

go_to_image(s0, text, io) ==
    LET s == [ s0 EXCEPT !.last.input = [ kind |-> text.kind, n |-> text.n, text |-> None ] ]
    IN
    IF text.kind # "int" THEN s
    ELSE IF s.img_count <= 0 THEN s
    ELSE LET target_idx == CapImageNum(text.n, s.img_count) - 1
             a == auto_save_before(s, io)
         IN IF ~a.ret \/ Raised(a.s) THEN a.s
            ELSE LET m == may_continue(a.s, io)
                 IN IF ~m.ret \/ Raised(m.s) THEN m.s
                    ELSE IF target_idx + 1 > Len(m.s.m_img_list)
                    THEN Raise([ m.s EXCEPT !.cur_img_idx = target_idx ], "IndexError")
                    ELSE load_file([ m.s EXCEPT !.cur_img_idx = target_idx ],
                                   m.s.m_img_list[target_idx + 1], io)

\* filename: the path picked in the Open dialog (NoPath when cancelled)
open_file(s, filename, io) ==
    LET m == may_continue(s, io)
    IN IF ~m.ret \/ Raised(m.s) THEN m.s
       ELSE IF filename = NoPath THEN m.s
       ELSE load_file([ m.s EXCEPT !.cur_img_idx = 0, !.img_count = 1 ], filename, io)

\* the colours QColorDialog can return; the colour of a cancelled dialog is not valid
PickedColors == { << "picked", 1 >> }
InvalidColor == << "invalid" >>

\* pick_color of open_color_palette, for the button of cls_name; color is the
\* colour the colour dialog returns
pick_color(s, cls_name, color) ==
    IF color = InvalidColor THEN s
    ELSE set_dirty([ s EXCEPT !.class_colors = DictSet(s.class_colors, cls_name, color) ])

reset_all_colors(s) == set_dirty([ s EXCEPT !.class_colors = EmptyMap ])

RECURSIVE load_predefined_classes_appends_all(_, _)
load_predefined_classes_appends_all(s, lines) ==
    IF lines = << >> THEN s
    ELSE load_predefined_classes_appends_all(
             update_class_visibility_list(
                 [ s EXCEPT !.label_hist = Append(s.label_hist, Head(lines)) ],
                 Head(lines)),
             Tail(lines))

RECURSIVE load_predefined_classes(_, _)
load_predefined_classes(s, lines) ==
    IF lines = << >> THEN s
    ELSE load_predefined_classes(
             update_class_visibility_list(
                 IF InList(s.label_hist, Head(lines)) THEN s
                 ELSE [ s EXCEPT !.label_hist = Append(s.label_hist, Head(lines)) ],
                 Head(lines)),
             Tail(lines))

\* scan_all_images: the images below the directory, sorted
scan_all_images(s, folder_path) ==
    IF folder_path = Dir THEN s.dir_files
    ELSE IF folder_path = OtherDir THEN << OtherImage >>
    ELSE << >>

import_dir_images(s, dir_path, io) ==
    LET m == may_continue(s, io)
    IN IF ~m.ret \/ Raised(m.s) \/ dir_path \in {None, ""} THEN m.s
       ELSE LET s1 == load_predefined_classes(
                          [ m.s EXCEPT !.last_open_dir = dir_path,
                                       !.dir_name = dir_path,
                                       !.file_path = NoPath ],
                          io.classes)
                s2 == [ s1 EXCEPT !.default_save_dir = dir_path,
                                  !.m_img_list = scan_all_images(s1, dir_path),
                                  !.img_count = Len(scan_all_images(s1, dir_path)) ]
            IN open_next_image(s2, io)

\* os.path.dirname of an image path
dirname(path) ==
    IF path \in 1..MaxImages THEN Dir ELSE IF path = OtherImage THEN OtherDir ELSE ""

\* target: the directory picked in the dialog ("" when it is cancelled)
open_dir_dialog(s0, dir_path, silent, target, io) ==
    LET s == [ s0 EXCEPT !.last.input = [ kind |-> IF silent THEN "silent" ELSE "dialog",
                                          n |-> 0, text |-> dir_path ] ]
        m == may_continue(s, io)
    IN IF ~m.ret \/ Raised(m.s) THEN m.s
       ELSE LET default_open_dir_path ==
                    IF m.s.last_open_dir \notin {None, ""}   \* and it exists
                    THEN m.s.last_open_dir
                    ELSE IF m.s.file_path # NoPath THEN dirname(m.s.file_path) ELSE CurDir
                target_dir_path == IF ~silent THEN target ELSE default_open_dir_path
            IN import_dir_images([ m.s EXCEPT !.last_open_dir = target_dir_path ],
                                 target_dir_path, io)

load_recent(s0, filename, io) ==
    LET s == [ s0 EXCEPT !.last.input = [ kind |-> "path", n |-> filename, text |-> None ] ]
        m == may_continue(s, io)
    IN IF ~m.ret \/ Raised(m.s) THEN m.s
       ELSE load_file(m.s, filename, io)

\* text: the text of the row of the file list that is double-clicked
file_item_double_clicked(s0, text, io) ==
    LET s == [ s0 EXCEPT !.last.input = [ kind |-> "path", n |-> text, text |-> None ] ]
    IN load_file([ s EXCEPT !.cur_img_idx = IndexOf(s.m_img_list, text) ], text, io)

\* delete_image, from the return of its call of open_next_image: n is the window
\* as that call leaves it, delete_path the image that was open before it
delete_image(n, delete_path, io) ==
    IF Raised(n) THEN n
    ELSE import_dir_images(
             [ n EXCEPT !.cur_img_idx = n.cur_img_idx - 1,
                        !.img_count = n.img_count - 1,
                        !.dir_files = ListRemove(n.dir_files, delete_path) ],
             n.last_open_dir, io)

close_file(s, io) ==
    LET m == may_continue(s, io)
    IN IF ~m.ret \/ Raised(m.s) THEN m.s
       ELSE [ toggle_actions(set_clean(reset_state(m.s)), FALSE)
                  EXCEPT !.canvas_enabled = FALSE ]

----------------------------------------------------------------------------
(* Canvas operations used by the editing handlers (libs/canvas.py), modelled *)
(* from the specification.  Those that return a value return [s, ret].       *)

PasteOffset == 1

\* the user finishes drawing a rectangle: the canvas holds the new shape, not
\* yet labelled, and emits newShape
canvas_finalise(s, pos) ==
    LET id == NewId(ShapeIds, DOMAIN s.obj)
    IN [ NewShape(s, id, None, pos) EXCEPT !.canvas_shapes = Append(s.canvas_shapes, id) ]

\* Canvas.set_last_label(text, line_color, fill_color): returns the last shape
canvas_set_last_label(s, text, line_color, fill_color) ==
    LET id == s.canvas_shapes[Len(s.canvas_shapes)]
    IN [ s |-> [ s EXCEPT !.obj[id].label = text,
                          !.obj[id].line_color = line_color,
                          !.obj[id].fill_color = fill_color ],
         ret |-> id ]

\* Canvas.reset_all_lines: the shape just drawn is taken back
canvas_reset_all_lines(s) ==
    Collect([ s EXCEPT !.canvas_shapes = SubSeq(s.canvas_shapes, 1, Len(s.canvas_shapes) - 1) ])

\* Canvas.copy_selected_shape: a copy of the selected shape is added and selected
canvas_copy_selected_shape(s, shape) ==
    IF shape = NoShape THEN [ s |-> s, ret |-> NoShape ]
    ELSE LET id == NewId(ShapeIds, DOMAIN s.obj)
         IN [ s |-> [ CopyOf(s, id, shape, s.obj[shape].pos)
                          EXCEPT !.canvas_shapes = Append(s.canvas_shapes, id),
                                 !.selected_shapes = {id} ],
              ret |-> id ]

\* Canvas.end_move(copy): the dragged copy of the selected shape is dropped at
\* pos, as a new selected shape (copy) or as the new place of the shape (move)
canvas_end_move(s, shape, copy, pos) ==
    IF copy
    THEN LET id == NewId(ShapeIds, DOMAIN s.obj)
         IN [ s |-> [ CopyOf(s, id, shape, pos)
                          EXCEPT !.canvas_shapes = Append(s.canvas_shapes, id),
                                 !.selected_shapes = {id} ],
              ret |-> id ]
    ELSE [ s |-> [ s EXCEPT !.obj[shape].pos = pos ], ret |-> shape ]

\* Canvas.de_select_shape, whose selectionChanged(False) ends in
\* shape_selection_changed
canvas_de_select_shape(s) ==
    [ s EXCEPT !.selected_shapes = {}, !.copy_selection_enabled = FALSE ]

\* the selected shapes in z-order
SelectedInOrder(s) == SelectSeq(s.canvas_shapes, LAMBDA x : x \in s.selected_shapes)

\* Canvas.copy_selected_shapes: detached copies of the selected shapes
RECURSIVE canvas_copy_selected_shapes(_, _, _)
canvas_copy_selected_shapes(s, todo, acc) ==
    IF todo = << >> THEN [ s |-> s, ret |-> acc ]
    ELSE LET id == NewId(ShapeIds, DOMAIN s.obj)
         IN canvas_copy_selected_shapes(
                CopyOf(s, id, Head(todo), s.obj[Head(todo)].pos),
                Tail(todo), Append(acc, id))

\* an existing shape of the image with the same label and the same box
IsDuplicate(s, existing, entry) ==
    \E x \in existing : /\ s.obj[x].label = s.obj[entry].label
                        /\ s.obj[x].pos = s.obj[entry].pos

\* Canvas.paste_shapes(entries, check_duplicates, apply_offset): an entry that
\* has a duplicate among the existing shapes is skipped when duplicates are
\* checked; every other entry is copied, moved by the fixed offset when the
\* offset is applied, and left at its coordinates otherwise
RECURSIVE canvas_paste_shapes(_, _, _, _, _, _)
canvas_paste_shapes(s, todo, check_duplicates, apply_offset, existing, acc) ==
    IF todo = << >> THEN [ s |-> s, ret |-> acc ]
    ELSE IF check_duplicates /\ IsDuplicate(s, existing, Head(todo))
    THEN canvas_paste_shapes(s, Tail(todo), check_duplicates, apply_offset, existing, acc)
    ELSE LET id == NewId(ShapeIds, DOMAIN s.obj)
             pos == IF apply_offset THEN s.obj[Head(todo)].pos + PasteOffset
                    ELSE s.obj[Head(todo)].pos
             s1 == [ CopyOf(s, id, Head(todo), pos)
                         EXCEPT !.canvas_shapes = Append(s.canvas_shapes, id) ]
         IN canvas_paste_shapes(s1, Tail(todo), check_duplicates, apply_offset,
                                existing, Append(acc, id))

----------------------------------------------------------------------------
(* Editing handlers *)

\* text: the label the dialog returned (None when cancelled);
\* reply: the answer to "Do you want to add this new class?"
new_shape_ignores_reply(s0, text, reply) ==
    LET s == [ s0 EXCEPT !.last.input = [ kind |-> "label", n |-> IF reply = "No" THEN 0 ELSE 1,
                                          text |-> text ] ]
    IN
    IF text = None THEN canvas_reset_all_lines(s)
    ELSE LET generate_color == ClassColor(s, text)
             c  == canvas_set_last_label([ s EXCEPT !.prev_label_text = text ],
                                         text, generate_color, generate_color)
             s1 == set_dirty(add_label(c.s, c.ret))
         IN IF ~InList(s1.label_hist, text)
            THEN [ s1 EXCEPT !.label_hist = Append(s1.label_hist, text) ]
            ELSE s1

\* text: what the label dialog returns (None when it is cancelled); reply: the
\* answer to 'Add New Class', asked for a text that is not in label_hist
new_shape(s0, text, reply) ==
    LET s == [ s0 EXCEPT !.last.input = [ kind |-> "label", n |-> IF reply = "No" THEN 0 ELSE 1,
                                          text |-> text ] ]
    IN
    IF text = None THEN canvas_reset_all_lines(s)
    ELSE IF ~InList(s.label_hist, text) /\ reply = "No" THEN canvas_reset_all_lines(s)
    ELSE LET generate_color == ClassColor(s, text)
             c  == canvas_set_last_label([ s EXCEPT !.prev_label_text = text ],
                                         text, generate_color, generate_color)
             s1 == set_dirty(add_label(c.s, c.ret))
         IN IF ~InList(s1.label_hist, text)
            THEN [ s1 EXCEPT !.label_hist = Append(s1.label_hist, text) ]
            ELSE s1

copy_selected_shape(s, shape) ==
    LET c == canvas_copy_selected_shape(s, shape)
    IN add_label(c.s, c.ret)

copy_shape(s, shape, pos) ==
    LET c == canvas_end_move(s, shape, TRUE, pos)
    IN set_dirty(add_label(c.s, c.ret))

move_shape(s, shape, pos) ==
    set_dirty(canvas_end_move(s, shape, FALSE, pos).s)

\* item: the current row; text: what the dialog returned
\* item.setText and item.setBackground emit itemChanged when the value changes
edit_label(s, item, text) ==
    IF text = None THEN s
    ELSE LET s1 == IF s.item_text[item] # text
                   THEN label_item_changed([ s EXCEPT !.item_text[item] = text ], item)
                   ELSE s
             s2 == IF s1.item_flags[item].background # ClassColor(s1, text)
                   THEN label_item_changed(
                            [ s1 EXCEPT !.item_flags[item].background = ClassColor(s1, text) ],
                            item)
                   ELSE s1
         IN set_dirty(s2)

RECURSIVE delete_each(_, _)
delete_each(s, todo) ==
    IF todo = << >> \/ Raised(s) THEN s
    ELSE IF InList(s.canvas_shapes, Head(todo))
    THEN delete_each(remove_label([ s EXCEPT !.canvas_shapes =
                                        ListRemove(s.canvas_shapes, Head(todo)) ],
                                  Head(todo)),
                     Tail(todo))
    ELSE delete_each(s, Tail(todo))

delete_selected_shape(s) ==
    LET s1 == IF s.selected_shapes # {}
              THEN canvas_de_select_shape(delete_each(s, SelectedInOrder(s)))
              ELSE remove_label(s, NoShape)      \* canvas.delete_selected() is None
        s2 == set_dirty(s1)
    IN IF Raised(s1) THEN s1
       ELSE IF Len(VisibleRows(s2)) > 0
               /\ VisibleRows(s2)[Len(VisibleRows(s2))] \in DOMAIN s2.items_to_shapes
       THEN select_last_item(s2)
       ELSE IF DOMAIN s2.items_to_shapes = {}            \* no_shapes()
       THEN [ s2 EXCEPT !.shapes_present_enabled = FALSE ]
       ELSE s2

\* Canvas.select_all_shapes selects every shape of the canvas
select_all_boxes(s) ==
    [ s EXCEPT !.selected_shapes = Range(s.canvas_shapes),
               !.copy_selection_enabled = TRUE ]

copy_selected_boxes_keeps_old(s) ==
    LET c == canvas_copy_selected_shapes(s, SelectedInOrder(s), << >>)
        s1 == [ c.s EXCEPT !.clipboard = s.clipboard \o c.ret ]
    IN Collect(IF c.ret # << >>
               THEN [ s1 EXCEPT !.clipboard_source_image = s.file_path,
                                !.paste_enabled = TRUE ]
               ELSE s1)

copy_selected_boxes(s) ==
    LET c == canvas_copy_selected_shapes(s, SelectedInOrder(s), << >>)
        s1 == [ c.s EXCEPT !.clipboard = c.ret ]
    IN Collect(IF c.ret # << >>
               THEN [ s1 EXCEPT !.clipboard_source_image = s.file_path,
                                !.paste_enabled = TRUE ]
               ELSE s1)

paste_selected_boxes_keeps_clipboard(s) ==
    IF s.clipboard = << >> THEN s
    ELSE LET is_same_image == (s.clipboard_source_image = s.file_path)
             c  == canvas_paste_shapes(s, s.clipboard, ~is_same_image, is_same_image,
                                       Range(s.canvas_shapes), << >>)
             RECURSIVE add_all(_, _)
             add_all(x, todo) == IF todo = << >> THEN x
                                 ELSE add_all(add_label(x, Head(todo)), Tail(todo))
             s1 == add_all(c.s, c.ret)
         IN Collect([ set_dirty(s1) EXCEPT
                         !.last.pasted = Len(c.ret),
                         !.last.skipped = Len(s.clipboard) - Len(c.ret) ])

paste_selected_boxes_never_registers(s) ==
    IF s.clipboard = << >> THEN s
    ELSE LET is_same_image == (s.clipboard_source_image = s.file_path)
             c  == canvas_paste_shapes(s, s.clipboard, ~is_same_image, is_same_image,
                                       Range(s.canvas_shapes), << >>)
             s2 == IF is_same_image /\ c.ret # << >>
                   THEN [ c.s EXCEPT !.clipboard = c.ret ]
                   ELSE c.s
         IN Collect([ set_dirty(s2) EXCEPT
                         !.last.pasted = Len(c.ret),
                         !.last.skipped = Len(s.clipboard) - Len(c.ret) ])

paste_selected_boxes_never_checks(s) ==
    IF s.clipboard = << >> THEN s
    ELSE LET is_same_image == (s.clipboard_source_image = s.file_path)
             c  == canvas_paste_shapes(s, s.clipboard, FALSE, is_same_image,
                                       Range(s.canvas_shapes), << >>)
             RECURSIVE add_all(_, _)
             add_all(x, todo) == IF todo = << >> THEN x
                                 ELSE add_all(add_label(x, Head(todo)), Tail(todo))
             s1 == add_all(c.s, c.ret)
             s2 == IF is_same_image /\ c.ret # << >>
                   THEN [ s1 EXCEPT !.clipboard = c.ret ]
                   ELSE s1
         IN Collect([ set_dirty(s2) EXCEPT
                         !.last.pasted = Len(c.ret),
                         !.last.skipped = Len(s.clipboard) - Len(c.ret) ])

paste_selected_boxes(s) ==
    IF s.clipboard = << >> THEN s
    ELSE LET is_same_image == (s.clipboard_source_image = s.file_path)
             c  == canvas_paste_shapes(s, s.clipboard, ~is_same_image, is_same_image,
                                       Range(s.canvas_shapes), << >>)
             RECURSIVE add_all(_, _)
             add_all(x, todo) == IF todo = << >> THEN x
                                 ELSE add_all(add_label(x, Head(todo)), Tail(todo))
             s1 == add_all(c.s, c.ret)
             s2 == IF is_same_image /\ c.ret # << >>
                   THEN [ s1 EXCEPT !.clipboard = c.ret ]
                   ELSE s1
         IN Collect([ set_dirty(s2) EXCEPT
                         !.last.pasted = Len(c.ret),
                         !.last.skipped = Len(s.clipboard) - Len(c.ret) ])

change_format_skips_createml(s) ==
    set_dirty(set_format(s, IF s.label_file_format = PASCAL_VOC THEN YOLO
                            ELSE PASCAL_VOC))

change_format_stays_clean(s) ==
    set_format(s, IF s.label_file_format = PASCAL_VOC THEN YOLO
                  ELSE IF s.label_file_format = YOLO THEN CREATE_ML
                  ELSE PASCAL_VOC)

change_format(s) ==
    set_dirty(set_format(s, IF s.label_file_format = PASCAL_VOC THEN YOLO
                            ELSE IF s.label_file_format = YOLO THEN CREATE_ML
                            ELSE PASCAL_VOC))

copy_previous_bounding_boxes(s, io) ==
    IF ~InList(s.m_img_list, s.file_path)
    THEN Raise(s, "ValueError")                   \* self.m_img_list.index(self.file_path)
    ELSE LET current_index == CHOOSE i \in 1..Len(s.m_img_list) :
                                  s.m_img_list[i] = s.file_path
         IN IF current_index - 1 >= 1
            THEN LET s1 == show_bounding_box_from_annotation_file(s, io)
                 IN IF Raised(s1) THEN s1 ELSE save_file(s1, io)
            ELSE s

----------------------------------------------------------------------------
(* MainWindow.__init__: the state after construction *)

InitFields ==
    /\ canvas_shapes = << >>
    /\ obj = EmptyMap
    /\ selected_shapes = {}
    /\ canvas_enabled = TRUE
    /\ shapes_to_items = EmptyMap
    /\ items_to_shapes = EmptyMap
    /\ label_list = << >>
    /\ item_text = EmptyMap
    /\ file_path = NoPath
    /\ dirty = FALSE
    /\ save_enabled = FALSE
    /\ label_hist = << "cat" >>            \* the predefined classes file holds one class
    /\ class_colors = EmptyMap
    /\ label_file_format = YOLO
    /\ clipboard = << >>
    /\ clipboard_source_image = NoPath
    /\ default_save_dir = None
    /\ m_img_list = << >>
    /\ cur_img_idx = 0
    /\ img_count = 1
    /\ dir_name = None
    /\ prev_label_text = ""
    /\ auto_saving = TRUE                 \* SETTING_AUTO_SAVE, True unless saved otherwise
    /\ label_file = None
    /\ paste_enabled = FALSE
    /\ item_flags = EmptyMap
    /\ class_visibility_list = << ShowAllItem >>   \* the classes file is read before the list exists
    /\ suffix = XML_EXT                           \* LabelFile.suffix as the class defines it
    /\ copy_selection_enabled = FALSE
    /\ shapes_present_enabled = FALSE
    /\ last = Started("__init__")
    /\ snap = None
    /\ steps = 0

\* the window after construction with no last directory in the settings
InitWindow ==
    InitFields /\ last_open_dir = None /\ dir_files = [ i \in 1..NImages |-> i ]

\* no function is examined on its own in a session of the window
NoCall == [ done |-> FALSE ]

Init == InitWindow /\ codec = NoCall

----------------------------------------------------------------------------
(* The handlers as actions: the user's gesture, with what the environment    *)
(* supplies, runs the whole handler.                                          *)

Free(n) == Cardinality(DOMAIN obj) + n <= MaxShapes

\* Inputs the handler does not ask for are left at their defaults: an input is
\* tried before the load (with no file at the path), and kept when the handler
\* has shown the prompts and made the writes it answers.
Canonical(io, r) ==
    /\ (r.last.nprompts = 0 => io.answer1 = "Cancel")
    /\ (r.last.nprompts <= 1 => io.answer2 = "Cancel")
    /\ (r.last.nwrites = 0 => io.write1 = "ok")
    /\ (r.last.nwrites <= 1 => io.write2 = "ok")

AnswersNow == IF dirty THEN Answers ELSE {"Cancel"}
WritesNow  == IF dirty THEN WriteRes ELSE {"ok"}
DirNow     == IF auto_saving /\ default_save_dir = None THEN {"", Dir} ELSE {""}

\* what is asked before an image is loaded
PreIO(classes, prompts) ==
    { [ NoIO EXCEPT !.answer1 = a1, !.answer2 = a2, !.write1 = w1, !.write2 = w2,
                    !.dirpick = d, !.classes = c ] :
        a1 \in AnswersNow, a2 \in IF prompts > 1 THEN AnswersNow ELSE {"Cancel"},
        w1 \in WritesNow, w2 \in WritesNow,
        d \in DirNow, c \in classes }

\* the annotation files found next to an image: none, or one of a format (with
\* several, the one that is read is the same as if it were alone)
Presents == { {} } \cup { {f} : f \in Formats }

\* what load_file may find at the path, r being the window when it is called
Files(r) ==
    { [ kind |-> k, present |-> {}, lines |-> << >> ] : k \in FileKinds }
    \cup UNION { { [ kind |-> "image", present |-> pr, lines |-> l ] :
                      l \in LinesOf(AnnotationChoice(r, pr)) } : pr \in Presents }

\* the results of the write that cleans a YOLO file with invalid class indices
CleanRes(r, f) ==
    IF /\ r.last.nwrites <= 1
       /\ AnnotationChoice(r, f.present) = YOLO
       /\ DOMAIN YoloReader_invalid_classes(r.label_hist, f.lines) # {}
    THEN WriteRes ELSE {"ok"}

WithFile(io, r, f, wc) ==
    [ io EXCEPT !.kind = f.kind, !.present = f.present, !.lines = f.lines,
                !.write1 = IF r.last.nwrites = 0 THEN wc ELSE io.write1,
                !.write2 = IF r.last.nwrites = 1 THEN wc ELSE io.write2 ]

\* what a handler that may end in load_file is run with: r is the window it
\* leaves when run with pre and no file at the path; when it has called load_file,
\* all that load_file can find at the path
Found(pre, r) ==
    IF r.last.ok = None THEN { pre }
    ELSE UNION { { WithFile(pre, r, f, wc) : wc \in CleanRes(r, f) } : f \in Files(r) }

Do_import_dir_images ==
    /\ steps < MaxDirSteps
    /\ \E pre \in PreIO({ << >>, << "cat", "dog" >> }, 2) :
         \E r \in { import_dir_images(Begin(S, "import_dir_images"), Dir, pre) } :
            /\ Canonical(pre, r)
            /\ \E io \in Found(pre, r) :
                  Apply(import_dir_images(Begin(S, "import_dir_images"), Dir, io))

Do_open_next_image ==
    /\ steps < MaxSteps
    /\ \E pre \in PreIO({ << >> }, 1) :
         \E r \in { open_next_image(Begin(S, "open_next_image"), pre) } :
            /\ Canonical(pre, r)
            /\ \E io \in Found(pre, r) :
                  Apply(open_next_image(Begin(S, "open_next_image"), io))

Do_open_prev_image ==
    /\ steps < MaxSteps
    /\ \E pre \in PreIO({ << >> }, 1) :
         \E r \in { open_prev_image(Begin(S, "open_prev_image"), pre) } :
            /\ Canonical(pre, r)
            /\ \E io \in Found(pre, r) :
                  Apply(open_prev_image(Begin(S, "open_prev_image"), io))

Do_go_to_image ==
    /\ steps < MaxSteps
    /\ \E text \in GoInputs, pre \in PreIO({ << >> }, 1) :
         \E r \in { go_to_image(Begin(S, "go_to_image"), text, pre) } :
            /\ Canonical(pre, r)
            /\ \E io \in Found(pre, r) :
                  Apply(go_to_image(Begin(S, "go_to_image"), text, io))

Do_open_file ==
    /\ steps < MaxSteps
    /\ \E filename \in Images \cup {OtherImage, NoPath}, pre \in PreIO({ << >> }, 1) :
         \E r \in { open_file(Begin(S, "open_file"), filename, pre) } :
            /\ Canonical(pre, r)
            /\ pre.dirpick = ""
            /\ \E io \in Found(pre, r) :
                  Apply(open_file(Begin(S, "open_file"), filename, io))

\* what a handler that ends in load_file is run with, in one choice: the answers
\* and the results of the writes, and what is at the path
OneIO(prompts, files) ==
    { [ NoIO EXCEPT !.answer1 = a1, !.answer2 = a2, !.write1 = w1, !.write2 = w2,
                    !.dirpick = d, !.kind = f.kind, !.present = f.present,
                    !.lines = f.lines ] :
        a1 \in AnswersNow, a2 \in IF prompts > 1 THEN AnswersNow ELSE {"Cancel"},
        w1 \in WriteRes, w2 \in WriteRes, d \in DirNow, f \in files }

\* an input the handler did not ask for is left at its default
Asked(io, r) ==
    /\ Canonical(io, r)
    /\ (r.last.ok = None => io.kind = "missing")

\* a file of the Recent Files menu: the list is read from the settings at startup
\* and holds every image that was loaded; the menu leaves out the current file
Do_load_recent ==
    /\ steps < MaxSteps
    /\ \E filename \in (Images \cup {OtherImage}) \ {file_path}, io \in OneIO(1, Files(S)) :
         \E r \in { load_recent(Begin(S, "load_recent"), filename, io) } :
            /\ Asked(io, r)
            /\ io.dirpick = ""
            /\ Apply(r)

\* a row of the file list, which shows m_img_list
Do_file_item_double_clicked ==
    /\ steps < MaxSteps
    /\ \E text \in Range(m_img_list), io \in OneIO(0, Files(S)) :
         \E r \in { file_item_double_clicked(Begin(S, "file_item_double_clicked"), text, io) } :
            /\ Asked(io, r)
            /\ io.answer1 = "Cancel"
            /\ io.dirpick = ""
            /\ Apply(r)

\* Delete Image with an image open (with none, the handler does nothing): the
\* call of open_next_image, then the rest of the handler. The image that
\* import_dir_images loads is found as the first, or without annotations.
Do_delete_image ==
    /\ steps < MaxSteps
    /\ file_path # NoPath
    /\ \E io \in OneIO(2, Files(S)) :
         \E n \in { open_next_image(Begin(S, "delete_image"), io) } :
          \E io2 \in { io, [ io EXCEPT !.kind = "image", !.present = {}, !.lines = << >> ] } :
           \E r \in { delete_image(n, file_path, io2) } :
              /\ Asked(io, r)
              /\ Apply(r)

\* Open Dir, and open_dir_dialog(dir_path=..., silent=True) as __init__ calls it
Do_open_dir_dialog ==
    /\ steps < MaxSteps
    /\ \E silent \in BOOLEAN, pre \in PreIO({ << >> }, 2) :
        \E dir_path \in IF silent THEN {Dir, OtherDir} ELSE {None},
           target \in IF silent THEN {""} ELSE {"", Dir, OtherDir} :
         \E r \in { open_dir_dialog(Begin(S, "open_dir_dialog"), dir_path, silent, target, pre) } :
            /\ Canonical(pre, r)
            /\ \E io \in Found(pre, r) :
                  Apply(open_dir_dialog(Begin(S, "open_dir_dialog"), dir_path, silent, target, io))

Do_pick_color ==
    /\ steps < MaxSteps
    /\ \E cls_name \in Range(label_hist) \ {""}, color \in PickedColors \cup {InvalidColor} :
          Apply(pick_color(Begin(S, "pick_color"), cls_name, color))

Do_reset_all_colors ==
    /\ steps < MaxSteps
    /\ Apply(reset_all_colors(Begin(S, "reset_all_colors")))

Do_close_file ==
    /\ steps < MaxSteps
    /\ \E a1 \in AnswersNow, w1 \in WritesNow :
           LET io == [ NoIO EXCEPT !.answer1 = a1, !.write1 = w1, !.savedlg = "saved_path" ]
               r  == close_file(Begin(S, "close_file"), io)
           IN Canonical(io, r) /\ Apply(r)

Do_save_file ==
    /\ steps < MaxSteps
    /\ save_enabled
    /\ \E w1 \in WriteRes,
          p \in IF default_save_dir = None /\ label_file = None
                THEN {"", "saved_path"} ELSE {""} :
        LET io == [ NoIO EXCEPT !.write1 = w1, !.savedlg = p ]
            r  == save_file(Begin(S, "save_file"), io)
        IN Canonical(io, r) /\ Apply(r)

Do_change_format ==
    /\ steps < MaxSteps
    /\ Apply(change_format(Begin(S, "change_format")))

Do_copy_previous_bounding_boxes ==
    /\ steps < MaxSteps
    /\ \E f \in Files(S), w1 \in WriteRes :
         \E w2 \in CleanRes(S, f) :
           LET io == [ NoIO EXCEPT !.write1 = w1, !.write2 = w2, !.present = f.present,
                                   !.lines = f.lines, !.savedlg = "saved_path" ]
               r  == copy_previous_bounding_boxes(Begin(S, "copy_previous_bounding_boxes"), io)
           IN /\ f.kind = "image"
              /\ Free(Len(f.lines))
              /\ Canonical(io, r)
              /\ Apply(r)

\* a rectangle is drawn on the image: canvas.newShape
Do_new_shape ==
    /\ steps < MaxSteps
    /\ canvas_enabled /\ file_path # NoPath /\ Free(1)
    /\ \E pos \in Pos, text \in Labels \cup {None} :
        \E reply \in IF text # None /\ ~InList(label_hist, text) THEN {"Yes", "No"} ELSE {"Yes"} :
           Apply(new_shape(canvas_finalise(Begin(S, "new_shape"), pos), text, reply))

Do_copy_selected_shape ==
    /\ steps < MaxSteps
    /\ canvas_enabled /\ Free(1)
    /\ \E shape \in selected_shapes :
        Apply(copy_selected_shape(Begin(S, "copy_selected_shape"), shape))

Do_copy_shape ==
    /\ steps < MaxSteps
    /\ canvas_enabled /\ Free(1)
    /\ \E shape \in selected_shapes, pos \in Pos :
        Apply(copy_shape(Begin(S, "copy_shape"), shape, pos))

Do_move_shape ==
    /\ steps < MaxSteps
    /\ canvas_enabled
    /\ \E shape \in selected_shapes, pos \in Pos :
        Apply(move_shape(Begin(S, "move_shape"), shape, pos))

\* the selected shape is dragged: canvas.shapeMoved is connected to set_dirty
Do_shapeMoved ==
    /\ steps < MaxSteps
    /\ canvas_enabled
    /\ \E shape \in selected_shapes, pos \in Pos :
        Apply(set_dirty([ Begin(S, "shapeMoved") EXCEPT !.obj[shape].pos = pos ]))

Do_edit_label ==
    /\ steps < MaxSteps
    /\ canvas_enabled
    /\ \E shape \in selected_shapes \cap DOMAIN shapes_to_items, text \in Labels \cup {None} :
        Apply(edit_label([ Begin(S, "edit_label") EXCEPT !.last.arg = shape ],
                         shapes_to_items[shape], text))

Do_delete_selected_shape ==
    /\ steps < MaxSteps
    /\ canvas_enabled /\ selected_shapes # {}
    /\ Apply(delete_selected_shape(Begin(S, "delete_selected_shape")))

Do_copy_selected_boxes ==
    /\ steps < MaxSteps
    /\ canvas_enabled /\ copy_selection_enabled
    /\ Free(Cardinality(selected_shapes))
    /\ Apply(copy_selected_boxes(Begin(S, "copy_selected_boxes")))

Do_paste_selected_boxes ==
    /\ steps < MaxSteps
    /\ paste_enabled /\ Free(Len(clipboard))
    /\ Apply(paste_selected_boxes(Begin(S, "paste_selected_boxes")))

\* a click on the canvas selects one shape or none; selectionChanged ends in
\* shape_selection_changed
Do_select ==
    /\ steps < MaxSteps
    /\ canvas_enabled
    /\ \E sel \in { {x} : x \in Range(canvas_shapes) } \cup { {} } :
        /\ sel # selected_shapes
        /\ Apply([ Begin(S, "select") EXCEPT !.selected_shapes = sel,
                                              !.copy_selection_enabled = (sel # {}) ])

Do_select_all_boxes ==
    /\ steps < MaxSteps
    /\ shapes_present_enabled
    /\ Apply(select_all_boxes(Begin(S, "select_all_boxes")))

\* Show all boxes (value TRUE) and Hide all boxes (value FALSE)
Do_toggle_polygons ==
    /\ steps < MaxSteps
    /\ shapes_present_enabled
    /\ \E value \in BOOLEAN :
        Apply(toggle_polygons(Begin(S, "toggle_polygons"), value))

Do_class_visibility_item_clicked ==
    /\ steps < MaxSteps
    /\ \E i \in 1..Len(class_visibility_list) :
        Apply(class_visibility_item_clicked(Begin(S, "class_visibility_item_clicked"), i))

Next ==
    \/ Do_import_dir_images
    \/ Do_open_next_image
    \/ Do_open_prev_image
    \/ Do_close_file
    \/ Do_save_file
    \/ Do_change_format
    \/ Do_copy_previous_bounding_boxes
    \/ Do_new_shape
    \/ Do_copy_selected_shape
    \/ Do_copy_shape
    \/ Do_move_shape
    \/ Do_shapeMoved
    \/ Do_edit_label
    \/ Do_delete_selected_shape
    \/ Do_copy_selected_boxes
    \/ Do_paste_selected_boxes
    \/ Do_select
    \/ Do_select_all_boxes
    \/ Do_toggle_polygons
    \/ Do_class_visibility_item_clicked

Spec == Init /\ [][Next]_vars

----------------------------------------------------------------------------
(* The store driven directly: add_label, remove_label and reset_state called *)
(* with a new Shape, with any Shape or None, and at any time.               *)

Store_add_label ==
    \E label \in Labels, pos \in Pos :
        /\ ShapeIds \ DOMAIN obj # {}
        /\ LET id == NewId(ShapeIds, DOMAIN obj)
               s0 == [ Begin(S, "add_label") EXCEPT !.last.arg = id,
                                                    !.snap = StoreOf(S) ]
           IN steps' = steps /\ Write(add_label(NewShape(s0, id, label, pos), id))

Store_remove_label ==
    \E shape \in ShapeIds \cup {NoShape} :
        LET undo == last.op = "add_label" /\ last.arg = shape
            s0 == [ Begin(S, "remove_label") EXCEPT
                        !.last.arg = shape,
                        !.last.undo = undo,
                        !.snap = IF undo THEN snap ELSE None ]
        IN steps' = steps /\ Write(remove_label(s0, shape))

Store_reset_state ==
    steps' = steps /\ Write([ reset_state(Begin(S, "reset_state")) EXCEPT !.snap = None ])

NextStore == Store_add_label \/ Store_remove_label \/ Store_reset_state

SpecStore == Init /\ [][NextStore]_vars

----------------------------------------------------------------------------
(* Navigation: the handlers that open and close images, with the drawing and *)
(* clipboard handlers that give them unsaved changes and a clipboard.         *)

MaxNavSteps == 3    \* handlers run in a session of navigation

Nav_import_dir_images == steps < MaxNavSteps /\ Do_import_dir_images

Nav_open_next_image == steps < MaxNavSteps /\ Do_open_next_image

Nav_open_prev_image == steps < MaxNavSteps /\ Do_open_prev_image

Nav_go_to_image == steps < MaxNavSteps /\ Do_go_to_image

Nav_open_file == steps < MaxNavSteps /\ Do_open_file

Nav_close_file == steps < MaxNavSteps /\ Do_close_file

Nav_new_shape == steps < MaxNavSteps /\ Do_new_shape

Nav_copy_selected_boxes == steps < MaxNavSteps /\ Do_copy_selected_boxes

Nav_paste_selected_boxes == steps < MaxNavSteps /\ Do_paste_selected_boxes

Nav_load_recent == steps < MaxNavSteps /\ Do_load_recent

NextNav ==
    \/ Nav_import_dir_images
    \/ Nav_open_next_image
    \/ Nav_open_prev_image
    \/ Nav_go_to_image
    \/ Nav_open_file
    \/ Nav_close_file
    \/ Nav_new_shape
    \/ Nav_copy_selected_boxes
    \/ Nav_paste_selected_boxes
    \/ Nav_load_recent

SpecNav == Init /\ [][NextNav]_vars

----------------------------------------------------------------------------
(* The file list: the handlers that move through the images of a directory.  *)

MaxListSteps == 3    \* handlers run in a session of the file list

List_import_dir_images ==
    /\ steps < MaxListSteps
    /\ \E io \in OneIO(2, Files([ S EXCEPT !.default_save_dir = Dir ])) :
         \E r \in { import_dir_images(Begin(S, "import_dir_images"), Dir, io) } :
            Asked(io, r) /\ Apply(r)

List_open_next_image ==
    /\ steps < MaxListSteps
    /\ \E io \in OneIO(1, Files(S)) :
         \E r \in { open_next_image(Begin(S, "open_next_image"), io) } :
            Asked(io, r) /\ Apply(r)

List_open_prev_image ==
    /\ steps < MaxListSteps
    /\ \E io \in OneIO(1, Files(S)) :
         \E r \in { open_prev_image(Begin(S, "open_prev_image"), io) } :
            Asked(io, r) /\ Apply(r)

List_go_to_image ==
    /\ steps < MaxListSteps
    /\ \E text \in GoInputs, io \in OneIO(1, Files(S)) :
         \E r \in { go_to_image(Begin(S, "go_to_image"), text, io) } :
            Asked(io, r) /\ Apply(r)

List_file_item_double_clicked == steps < MaxListSteps /\ Do_file_item_double_clicked

List_load_recent == steps < MaxListSteps /\ Do_load_recent

List_delete_image == steps < MaxListSteps /\ Do_delete_image

NextList ==
    \/ List_import_dir_images
    \/ List_open_next_image
    \/ List_open_prev_image
    \/ List_go_to_image
    \/ List_file_item_double_clicked
    \/ List_load_recent
    \/ List_delete_image

SpecList == Init /\ [][NextList]_vars

----------------------------------------------------------------------------
(* Walking through a directory: a directory of one to MaxImages images is    *)
(* opened and Next Image is pressed again and again. No handler is counted:  *)
(* the walk goes on for ever.                                                *)

InitWalk ==
    /\ InitFields
    /\ last_open_dir = None
    /\ dir_files \in { [ i \in 1..n |-> i ] : n \in 1..MaxImages }
    /\ codec = NoCall

\* what is at the path of the image that is loaded; every write succeeds, so
\* that the auto-save leaves no change unsaved and nothing is asked
WalkIO ==
    { [ NoIO EXCEPT !.kind = f.kind, !.present = f.present, !.lines = f.lines ] :
        f \in Files([ S EXCEPT !.default_save_dir = Dir ]) }

\* the directory is opened once, at the start of the walk
Walk_import_dir_images ==
    /\ m_img_list = << >>
    /\ \E io \in WalkIO :
         \E r \in { import_dir_images(Begin(S, "import_dir_images"), Dir, io) } :
            Asked(io, r) /\ steps' = steps /\ Write(r)

Walk_open_next_image ==
    /\ m_img_list # << >>
    /\ \E io \in WalkIO :
         \E r \in { open_next_image(Begin(S, "open_next_image"), io) } :
            Asked(io, r) /\ steps' = steps /\ Write(r)

NextWalk == Walk_import_dir_images \/ Walk_open_next_image

SpecWalk == InitWalk /\ [][NextWalk]_vars

\* Next Image is pressed again and again
SpecWalkLive == SpecWalk /\ WF_vars(Walk_open_next_image)

----------------------------------------------------------------------------
(* Annotation files: images are opened for which any of the annotation files *)
(* of the three formats exist, several at a time included.                   *)

MaxAnnotSteps == 2    \* handlers run in a session of annotation files

\* what load_file may find at the path of an image, s being the window when it
\* is called: any set of annotation files, and the contents of the one that is read
AnnotFiles(s) ==
    UNION { { [ kind |-> "image", present |-> pr, lines |-> l ] :
                 l \in LinesOf(AnnotationChoice(s, pr)) } : pr \in SUBSET Formats }
    \cup { [ kind |-> "missing", present |-> {}, lines |-> << >> ] }

Annot_open_file ==
    /\ steps < MaxAnnotSteps
    /\ \E filename \in Images, io \in OneIO(1, AnnotFiles(S)) :
         \E r \in { open_file(Begin(S, "open_file"), filename, io) } :
            /\ Asked(io, r)
            /\ io.dirpick = ""
            /\ Apply(r)

Annot_import_dir_images ==
    /\ steps < MaxAnnotSteps
    /\ \E io \in OneIO(2, AnnotFiles([ S EXCEPT !.default_save_dir = Dir ])) :
         \E r \in { import_dir_images(Begin(S, "import_dir_images"), Dir, io) } :
            /\ Asked(io, r)
            /\ io.dirpick = ""
            /\ Apply(r)

NextAnnot == Annot_open_file \/ Annot_import_dir_images

SpecAnnot == Init /\ [][NextAnnot]_vars

----------------------------------------------------------------------------
(* Opening a directory: Open Dir and the call of open_dir_dialog that        *)
(* __init__ makes, after a start with any last directory in the settings.    *)

MaxOpenDirSteps == 3    \* handlers run in a session of opening directories

\* self.last_open_dir = ustr(settings.get(SETTING_LAST_OPEN_DIR, None))
InitOpenDir ==
    /\ InitFields
    /\ last_open_dir \in {None, Dir, OtherDir}
    /\ dir_files = [ i \in 1..NImages |-> i ]
    /\ codec = NoCall

OpenDir_open_dir_dialog == steps < MaxOpenDirSteps /\ Do_open_dir_dialog

OpenDir_open_file == steps < MaxOpenDirSteps /\ Do_open_file

OpenDir_close_file == steps < MaxOpenDirSteps /\ Do_close_file

NextOpenDir == OpenDir_open_dir_dialog \/ OpenDir_open_file \/ OpenDir_close_file

SpecOpenDir == InitOpenDir /\ [][NextOpenDir]_vars

----------------------------------------------------------------------------
(* Colours: the colour palette, with the handlers that create and rename      *)
(* shapes.                                                                    *)

MaxColorSteps == 3    \* handlers run in a session with the colour palette

Col_import_dir_images == steps < MaxColorSteps /\ Do_import_dir_images

Col_new_shape == steps < MaxColorSteps /\ Do_new_shape

Col_edit_label == steps < MaxColorSteps /\ Do_edit_label

Col_pick_color == steps < MaxColorSteps /\ Do_pick_color

Col_reset_all_colors == steps < MaxColorSteps /\ Do_reset_all_colors

NextColors ==
    \/ Col_import_dir_images
    \/ Col_new_shape
    \/ Col_edit_label
    \/ Col_pick_color
    \/ Col_reset_all_colors

SpecColors == Init /\ [][NextColors]_vars

----------------------------------------------------------------------------
(* The path save_labels writes to. A path is a sequence of characters.        *)

Letters == { "a", "x", "m", "l", "t", "j", "s", "o", "n" }

Upper(c) ==
    CASE c = "a" -> "A" [] c = "x" -> "X" [] c = "m" -> "M" [] c = "l" -> "L"
      [] c = "t" -> "T" [] c = "j" -> "J" [] c = "s" -> "S" [] c = "o" -> "O"
      [] c = "n" -> "N" [] OTHER -> c

\* str.lower()
lower(p) ==
    [ i \in 1..Len(p) |->
        IF \E c \in Letters : Upper(c) = p[i]
        THEN CHOOSE c \in Letters : Upper(c) = p[i]
        ELSE p[i] ]

\* the characters of an extension
CharsOf(ext) ==
    CASE ext = XML_EXT -> << ".", "x", "m", "l" >>
      [] ext = TXT_EXT -> << ".", "t", "x", "t" >>
      [] ext = JSON_EXT -> << ".", "j", "s", "o", "n" >>

\* path[-n:]
LastChars(p, n) == IF Len(p) <= n THEN p ELSE SubSeq(p, Len(p) - n + 1, Len(p))

\* save_labels: the path that is handed to the writer of the format
save_labels_path_compares_case(format, annotation_file_path) ==
    IF format = PASCAL_VOC
    THEN IF LastChars(annotation_file_path, 4) # CharsOf(".xml")
         THEN annotation_file_path \o CharsOf(XML_EXT)
         ELSE annotation_file_path
    ELSE IF format = YOLO
    THEN IF LastChars(annotation_file_path, 4) # CharsOf(".txt")
         THEN annotation_file_path \o CharsOf(TXT_EXT)
         ELSE annotation_file_path
    ELSE IF LastChars(annotation_file_path, 5) # CharsOf(".json")
         THEN annotation_file_path \o CharsOf(JSON_EXT)
         ELSE annotation_file_path

save_labels_path(format, annotation_file_path) ==
    IF format = PASCAL_VOC
    THEN IF lower(LastChars(annotation_file_path, 4)) # CharsOf(".xml")
         THEN annotation_file_path \o CharsOf(XML_EXT)
         ELSE annotation_file_path
    ELSE IF format = YOLO
    THEN IF lower(LastChars(annotation_file_path, 4)) # CharsOf(".txt")
         THEN annotation_file_path \o CharsOf(TXT_EXT)
         ELSE annotation_file_path
    ELSE IF lower(LastChars(annotation_file_path, 5)) # CharsOf(".json")
         THEN annotation_file_path \o CharsOf(JSON_EXT)
         ELSE annotation_file_path

MaxStem == 1      \* characters of a path before its ending

\* an extension in every mix of upper and lower case
RECURSIVE Cased(_)
Cased(e) ==
    IF e = << >> THEN { << >> }
    ELSE { << c >> \o r : c \in { e[1], Upper(e[1]) }, r \in Cased(Tail(e)) }

\* endings of a path: none, an extension in any case, an extension without its
\* dot, without its last character, or followed by one more character
Endings ==
    UNION { Cased(CharsOf(e)) \cup { Tail(CharsOf(e)),
                                      SubSeq(CharsOf(e), 1, Len(CharsOf(e)) - 1),
                                      CharsOf(e) \o << "a" >> }
            : e \in { XML_EXT, TXT_EXT, JSON_EXT } }
    \cup { << >> }

Paths == { stem \o e : stem \in UNION { [ 1..k -> { "a" } ] : k \in 0..MaxStem },
                        e \in Endings }

InitPath ==
    /\ InitWindow
    /\ codec \in [ done : {FALSE}, format : Formats, path : Paths, written : { << >> } ]

Path_save_labels ==
    /\ ~codec.done
    /\ codec' = [ codec EXCEPT !.done = TRUE,
                                !.written = save_labels_path(codec.format, codec.path) ]
    /\ UNCHANGED window

NextPath == Path_save_labels

SpecPath == InitPath /\ [][NextPath]_vars

----------------------------------------------------------------------------
(* Saving a list of shapes and reading the file back. A shape is a label with *)
(* the two bounds of its box on one axis, in pixels; what is read back is in  *)
(* units of 1/Unit pixel, so that the fractions of a YOLO file are integers.  *)
(* The writers and readers (libs/labelFile.py, pascal_voc_io.py, yolo_io.py,  *)
(* create_ml_io.py) are modelled from the specification.                       *)

CodecW         == 3      \* width of the image, in pixels
YoloScale      == 100    \* a YOLO file keeps multiples of 1/YoloScale
MaxCodecShapes == 2      \* shapes of the list that is saved
Unit           == 2 * YoloScale
YoloTolerance  == 2 * CodecW    \* in units of 1/Unit pixel

\* a / b rounded to the nearest integer (a >= 0, b > 0)
Round(a, b) == (2 * a + b) \div (2 * b)

\* LabelFile.save_pascal_voc_format: an <object> with <name> and the bounds of
\* <bndbox> as integers
save_pascal_voc_format(shapes) ==
    [ i \in 1..Len(shapes) |->
        [ name |-> shapes[i].label, xmin |-> shapes[i].xmin, xmax |-> shapes[i].xmax ] ]

\* PascalVocReader.get_shapes
PascalVocReader_get_shapes(file) ==
    [ i \in 1..Len(file) |->
        [ label |-> file[i].name, xmin |-> Unit * file[i].xmin,
          xmax |-> Unit * file[i].xmax ] ]

\* LabelFile.save_yolo_format: a line with the index of the label in the class
\* list and the centre and the width of the box divided by the width of the image
save_yolo_format(shapes, class_list) ==
    [ i \in 1..Len(shapes) |->
        [ idx |-> IndexOf(class_list, shapes[i].label),
          cx  |-> Round((shapes[i].xmin + shapes[i].xmax) * YoloScale, 2 * CodecW),
          w   |-> Round((shapes[i].xmax - shapes[i].xmin) * YoloScale, CodecW) ] ]

\* YoloReader.get_shapes with the class list of the file
YoloReader_shapes(file, classes) ==
    LET kept == SelectSeq(file, LAMBDA l : l.idx < Len(classes))
    IN [ i \in 1..Len(kept) |->
           [ label |-> classes[kept[i].idx + 1],
             xmin |-> CodecW * (2 * kept[i].cx - kept[i].w),
             xmax |-> CodecW * (2 * kept[i].cx + kept[i].w) ] ]

\* LabelFile.save_create_ml_format: an annotation with the label, the centre of
\* the box (in half pixels) and its width
save_create_ml_format(shapes, class_list) ==
    [ i \in 1..Len(shapes) |->
        [ label |-> shapes[i].label, x2 |-> shapes[i].xmin + shapes[i].xmax,
          width |-> shapes[i].xmax - shapes[i].xmin ] ]

\* CreateMLReader.get_shapes
CreateMLReader_get_shapes(file) ==
    [ i \in 1..Len(file) |->
        [ label |-> file[i].label, xmin |-> YoloScale * (file[i].x2 - file[i].width),
          xmax |-> YoloScale * (file[i].x2 + file[i].width) ] ]

\* save_labels: the writer that is called for the format, and what it is given
save_labels_write_without_classes(format, shapes, label_hist_) ==
    IF format = PASCAL_VOC THEN save_pascal_voc_format(shapes)
    ELSE IF format = YOLO THEN save_yolo_format(shapes, << "cat", "dog" >>)
    ELSE save_create_ml_format(shapes, label_hist_)

save_labels_write(format, shapes, label_hist_) ==
    IF format = PASCAL_VOC THEN save_pascal_voc_format(shapes)
    ELSE IF format = YOLO THEN save_yolo_format(shapes, label_hist_)
    ELSE save_create_ml_format(shapes, label_hist_)

\* Canvas.snap_point_to_canvas on a coordinate in units of 1/Unit pixel
SnapUnits(x) == IF x < 0 THEN 0 ELSE IF x > Unit * CodecW THEN Unit * CodecW ELSE x

\* load_*_by_filename: the reader of the format, and load_labels on its shapes
load_by_filename(format, file, classes) ==
    LET shapes == IF format = PASCAL_VOC THEN PascalVocReader_get_shapes(file)
                  ELSE IF format = YOLO THEN YoloReader_shapes(file, classes)
                  ELSE CreateMLReader_get_shapes(file)
    IN [ i \in 1..Len(shapes) |->
           [ shapes[i] EXCEPT !.xmin = SnapUnits(shapes[i].xmin),
                              !.xmax = SnapUnits(shapes[i].xmax) ] ]

\* the valid boxes, the lists of them, the class lists that hold their labels
CodecBoxes ==
    { b \in [ label : Labels, xmin : 0..CodecW, xmax : 0..CodecW ] : b.xmin < b.xmax }

CodecShapes == UNION { [ 1..k -> CodecBoxes ] : k \in 0..MaxCodecShapes }

CodecClasses == { << "cat", "dog" >>, << "dog", "cat" >> }

InitCodec ==
    /\ InitWindow
    /\ codec \in [ stage : {"new"}, format : Formats, shapes : CodecShapes,
                    classes : CodecClasses, file : { << >> }, back : { << >> } ]

Codec_save_labels ==
    /\ codec.stage = "new"
    /\ codec' = [ codec EXCEPT !.stage = "written",
                                !.file = save_labels_write(codec.format, codec.shapes,
                                                           codec.classes) ]
    /\ UNCHANGED window

Codec_load_by_filename ==
    /\ codec.stage = "written"
    /\ codec' = [ codec EXCEPT !.stage = "read",
                                !.back = load_by_filename(codec.format, codec.file,
                                                          codec.classes) ]
    /\ UNCHANGED window

NextCodec == Codec_save_labels \/ Codec_load_by_filename

SpecCodec == InitCodec /\ [][NextCodec]_vars

----------------------------------------------------------------------------
(* Loading YOLO files of several lines: an image is opened, alone or as the   *)
(* first of a directory, whose YOLO file has up to MaxYoloLines lines.        *)

MaxYoloLines == 3      \* lines of the YOLO file
MaxYoloIdx   == 2      \* class indices of the lines are 0..MaxYoloIdx

MaxYoloSteps == 1      \* images that are opened

YoloFiles == SeqUpTo([ idx : 0..MaxYoloIdx, pos : FilePos ], MaxYoloLines)

YoloIO(lines, w, dlg, classes) ==
    [ NoIO EXCEPT !.kind = "image", !.present = {YOLO}, !.lines = lines,
                  !.write1 = w, !.savedlg = dlg, !.classes = classes ]

Yolo_open_file ==
    /\ steps < MaxYoloSteps
    /\ \E lines \in YoloFiles, w \in WriteRes, dlg \in {"", "saved_path"} :
          Apply(open_file(Begin(S, "open_file"), 1, YoloIO(lines, w, dlg, << >>)))

Yolo_import_dir_images ==
    /\ steps < MaxYoloSteps
    /\ \E lines \in YoloFiles, w \in WriteRes, classes \in { << >>, << "cat", "dog" >> } :
          Apply(import_dir_images(Begin(S, "import_dir_images"), Dir,
                                  YoloIO(lines, w, "", classes)))

NextYolo == Yolo_open_file \/ Yolo_import_dir_images

SpecYolo == Init /\ [][NextYolo]_vars

----------------------------------------------------------------------------
(* Properties *)

\* the handlers that end in load_file
LoadOps == {"import_dir_images", "open_next_image", "open_prev_image"}

\* the handlers that change the annotations of the image
MutatingOps == {"new_shape", "copy_selected_shape", "copy_shape", "paste_selected_boxes",
                "delete_selected_shape", "edit_label", "move_shape", "shapeMoved"}

\* C1: after any sequence of handlers the shapes on the canvas are the keys of
\* shapes_to_items and the rows of label_list are the keys of items_to_shapes:
\* no shape without a row, no row without a live shape.
C1_CanvasMatchesStore ==
    /\ Range(canvas_shapes) = DOMAIN shapes_to_items
    /\ Range(label_list) = DOMAIN items_to_shapes

\* C2: shapes_to_items and items_to_shapes are inverses of each other and have
\* the same size in every reachable state.
C2_MutualInverses ==
    /\ \A x \in DOMAIN shapes_to_items :
          /\ shapes_to_items[x] \in DOMAIN items_to_shapes
          /\ items_to_shapes[shapes_to_items[x]] = x
    /\ \A i \in DOMAIN items_to_shapes :
          /\ items_to_shapes[i] \in DOMAIN shapes_to_items
          /\ shapes_to_items[items_to_shapes[i]] = i
    /\ Cardinality(DOMAIN shapes_to_items) = Cardinality(DOMAIN items_to_shapes)

\* two shapes are stored and one of them has just been deleted or pasted
C2_Witness ==
    /\ last.op \in {"delete_selected_shape", "paste_selected_boxes"}
    /\ last.err = None
    /\ Cardinality(DOMAIN shapes_to_items) >= 1
    /\ Cardinality(DOMAIN obj) >= 2

C4_FailedLoadChangesNothing ==
    [][ (last'.op = "open_next_image" /\ last'.ok = "False" /\ ~dirty)
            => /\ canvas_shapes' = canvas_shapes
               /\ shapes_to_items' = shapes_to_items
               /\ items_to_shapes' = items_to_shapes
               /\ label_list' = label_list
               /\ file_path' = file_path
               /\ dirty' = dirty ]_vars

\* C5: a save clears dirty when the write succeeds; when the write fails the
\* error is reported and dirty stays True; either way the call writes at most once.
C5_SaveClearsDirtyOrReports ==
    last.op = "save_file"
        => /\ last.wrote = "ok" => ~dirty
           /\ last.wrote = "fail" => (dirty /\ last.reported)
           /\ last.nwrites <= 1

\* a save whose write failed
C5_Witness ==
    last.op = "save_file" /\ last.wrote = "fail" /\ last.nwrites = 1

\* C6: every handler that changes the annotations of the image (draw, duplicate,
\* paste, delete, rename, move) leaves dirty True.
C6_MutationSetsDirty ==
    [][ (/\ last'.op \in MutatingOps
         /\ last'.err = None
         /\ \/ canvas_shapes' # canvas_shapes
            \/ shapes_to_items' # shapes_to_items
            \/ \E x \in DOMAIN shapes_to_items \cap DOMAIN shapes_to_items' :
                   obj'[x] # obj[x])
            => dirty' ]_vars

\* C7: the Save action is enabled exactly when dirty is True.
C7_SaveEnabledIffDirty == save_enabled = dirty

\* a save has just made the window clean again
C7_Witness ==
    last.op = "save_file" /\ last.wrote = "ok" /\ ~dirty /\ ~save_enabled

\* C8: remove_label of a shape that is not in shapes_to_items raises no error and
\* leaves shapes_to_items, items_to_shapes and label_list as they were.
C8_RemoveAbsentIsNoOp ==
    [][ (last'.op = "remove_label" /\ last'.arg \notin DOMAIN shapes_to_items)
            => /\ last'.err = None
               /\ shapes_to_items' = shapes_to_items
               /\ items_to_shapes' = items_to_shapes
               /\ label_list' = label_list ]_vars

\* C9: add_label of a new shape followed by remove_label of that shape restores
\* shapes_to_items, items_to_shapes and the rows of label_list, content and order.
C9_AddThenRemoveRestores ==
    last.undo => (last.err = None /\ StoreOf(S) = snap)

\* a shape was added to a store that held rows, and removed again
C9_Witness ==
    last.op = "remove_label" /\ last.undo /\ Len(label_list) >= 2

\* C10: the label of every stored shape is in label_hist.
C10_LabelsInHistory ==
    \A x \in DOMAIN shapes_to_items : InList(label_hist, obj[x].label)

\* C11: label_hist is append-only: every handler leaves the label_hist it found
\* as a prefix of the new one, and every label it appends was not in the list.
C11_HistAppendOnly ==
    [][ /\ Len(label_hist') >= Len(label_hist)
        /\ SubSeq(label_hist', 1, Len(label_hist)) = label_hist
        /\ \A i \in (Len(label_hist) + 1)..Len(label_hist') :
               \A j \in 1..(i - 1) : label_hist'[j] # label_hist'[i] ]_vars

\* a directory was opened whose classes file names a class of label_hist and a
\* new class: only the new one was appended
C11_Witness ==
    last.op = "import_dir_images" /\ label_hist = << "cat", "dog" >>

\* C12: renaming a shape (edit_label) sets its label to the new text, recomputes
\* its line colour and its fill colour from the new label, sets dirty, and leaves
\* every other shape as it was.
C12_RenameRecolours ==
    [][ (/\ last'.op = "edit_label"
         /\ last'.arg \in DOMAIN shapes_to_items
         /\ item_text'[shapes_to_items[last'.arg]] # item_text[shapes_to_items[last'.arg]])
            => LET x == last'.arg
                   text == item_text'[shapes_to_items[x]]
               IN /\ obj'[x].label = text
                  /\ obj'[x].line_color = generate_color_by_text(text)
                  /\ obj'[x].fill_color = generate_color_by_text(text)
                  /\ dirty'
                  /\ \A y \in DOMAIN obj \ {x} : y \in DOMAIN obj' /\ obj'[y] = obj[y] ]_vars

\* the shapes of the store
Stored == DOMAIN shapes_to_items

\* with a specific set of checked classes, a stored shape is visible exactly
\* when its label is checked
FilterApplied ==
    ~ShowAllChecked(S) =>
        \A x \in Stored : obj[x].visible <=> obj[x].label \in SelectedClasses(S)

\* C13: after a load and after a rename the visibility filter has been applied:
\* with a specific set of checked classes each shape is visible iff its label
\* is in the set.
C13_FilterAfterLoadAndRename ==
    (/\ last.err = None
     /\ \/ last.op \in LoadOps /\ last.ok = "True"
        \/ last.op = "edit_label") => FilterApplied

\* C14: when Show All is checked every shape is visible, and when a specific set
\* of classes is checked no shape with a label outside the set is visible.
C14_FilterInvariant ==
    /\ ShowAllChecked(S) => \A x \in Stored : obj[x].visible
    /\ ~ShowAllChecked(S) =>
           \A x \in Stored : obj[x].label \notin SelectedClasses(S) => ~obj[x].visible

\* what the filter writes: the visible flag of every shape, the hidden flag and
\* the check state of every row
FilterView(s) ==
    [ visible |-> [ x \in DOMAIN s.obj |-> s.obj[x].visible ],
      rows |-> [ i \in DOMAIN s.item_flags |->
                    << s.item_flags[i].hidden, s.item_flags[i].checked >> ] ]

\* the shapes and the rows there are
Membership(s) ==
    << s.canvas_shapes, DOMAIN s.obj, s.label_list, s.shapes_to_items, s.items_to_shapes >>

\* C15: class_visibility_changed applied twice with the same checked classes
\* gives the visible flags, hidden flags and check states of one application,
\* and no application adds or removes a shape or a row.
C15_FilterIdempotent ==
    LET once  == class_visibility_changed(S)
        twice == class_visibility_changed(once)
    IN /\ FilterView(twice) = FilterView(once)
       /\ Membership(once) = Membership(S)
       /\ Membership(twice) = Membership(S)

\* every box was hidden while Show All is checked: applying the filter changes
\* the flags
C15_Witness ==
    /\ last.op = "toggle_polygons"
    /\ Stored # {}
    /\ FilterView(class_visibility_changed(S)) # FilterView(S)

\* the format that follows f in the cycle PascalVOC -> YOLO -> CreateML -> PascalVOC
CycleNext(f) ==
    IF f = PASCAL_VOC THEN YOLO ELSE IF f = YOLO THEN CREATE_ML ELSE PASCAL_VOC

C17_ChangeFormatOnlyFormat ==
    [][ last'.op = "change_format"
            => /\ dirty'
               /\ last'.nwrites = 0
               /\ canvas_shapes' = canvas_shapes
               /\ obj' = obj
               /\ shapes_to_items' = shapes_to_items
               /\ items_to_shapes' = items_to_shapes
               /\ label_list' = label_list
               /\ label_hist' = label_hist
               /\ clipboard' = clipboard
               /\ file_path' = file_path
               /\ cur_img_idx' = cur_img_idx ]_vars

\* the format was changed with a shape in the store and a copy in the clipboard
C17_Witness ==
    last.op = "change_format" /\ dirty /\ Stored # {} /\ clipboard # << >>

\* the shape y of the next state is a copy of the shape x: label, box and colours
IsCopy(y, x) ==
    /\ obj'[y].label = obj[x].label
    /\ obj'[y].pos = obj[x].pos
    /\ obj'[y].line_color = obj[x].line_color
    /\ obj'[y].fill_color = obj[x].fill_color

\* the clipboard of the next state holds new copies of the selected shapes
ClipboardIsCopyOfSelection ==
    LET sel == SelectedInOrder(S)
    IN /\ Len(clipboard') = Len(sel)
       /\ \A i \in 1..Len(sel) : clipboard'[i] \notin DOMAIN obj /\ IsCopy(clipboard'[i], sel[i])

\* C18 (as stated): after copy_selected_boxes the clipboard holds exactly the
\* copies of the shapes selected at the call and clipboard_source_image is the
\* current file_path.
C18_CopyFillsClipboard ==
    [][ last'.op = "copy_selected_boxes"
            => /\ ClipboardIsCopyOfSelection
               /\ clipboard_source_image' = file_path' ]_vars

\* C18 (amended): after copy_selected_boxes the clipboard holds exactly the
\* copies of the shapes selected at the call; clipboard_source_image is the
\* current file_path when a shape was selected, and is left as it was when none
\* was (the clipboard is then empty).
C18_CopyFillsClipboardIfSelected ==
    [][ last'.op = "copy_selected_boxes"
            => /\ ClipboardIsCopyOfSelection
               /\ file_path' = file_path
               /\ clipboard_source_image' = IF selected_shapes # {} THEN file_path
                                             ELSE clipboard_source_image ]_vars

\* a selected shape was copied
C18_Witness ==
    /\ last.op = "copy_selected_boxes"
    /\ Len(clipboard) >= 1
    /\ clipboard_source_image = file_path

\* the paste leaves one new stored shape on the canvas per clipboard entry, and
\* the clipboard holds these shapes
PastedOnePerEntry ==
    /\ Len(clipboard') = Len(clipboard)
    /\ last'.pasted = Len(clipboard)
    /\ Cardinality(DOMAIN shapes_to_items') = Cardinality(Stored) + Len(clipboard)
    /\ \A i \in 1..Len(clipboard) :
          /\ clipboard'[i] \notin DOMAIN obj
          /\ clipboard'[i] \in DOMAIN shapes_to_items'
          /\ InList(canvas_shapes', clipboard'[i])
          /\ obj'[clipboard'[i]].label = obj[clipboard[i]].label
    /\ \A i, j \in 1..Len(clipboard) : i # j => clipboard'[i] # clipboard'[j]

\* C19: a paste into the image the clipboard was copied from inserts one shape
\* per entry, each moved by the fixed offset, suppresses no duplicate, and makes
\* the pasted shapes the clipboard: every paste of a shape lands at a position no
\* earlier paste of it has.
C19_SameImagePaste ==
    [][ (/\ last'.op = "paste_selected_boxes"
         /\ clipboard # << >>
         /\ file_path = clipboard_source_image)
            => /\ PastedOnePerEntry
               /\ PasteOffset > 0
               /\ \A i \in 1..Len(clipboard) :
                     obj'[clipboard'[i]].pos = obj[clipboard[i]].pos + PasteOffset ]_vars

\* a copied shape was pasted twice in a row into its own image: three shapes
\* with its label at three positions
C19_Witness ==
    /\ last.op = "paste_selected_boxes"
    /\ file_path = clipboard_source_image
    /\ last.pasted = 1 /\ last.skipped = 0
    /\ obj[clipboard[1]].pos = 2 * PasteOffset
    /\ \E x, y \in Stored : /\ obj[x].label = obj[y].label
                            /\ obj[x].pos = 0
                            /\ obj[y].pos = PasteOffset

\* entry i of the clipboard has a duplicate on the canvas: same label, same box
HasDuplicate(i) ==
    \E x \in Range(canvas_shapes) : /\ obj[x].label = obj[clipboard[i]].label
                                     /\ obj[x].pos = obj[clipboard[i]].pos

\* C20: a paste into another image than the one the clipboard was copied from
\* skips the entries that have a duplicate in the image, pastes every other
\* entry at its coordinates, reports the number of skipped entries and leaves
\* the clipboard as it was.
C20_CrossImagePaste ==
    [][ (/\ last'.op = "paste_selected_boxes"
         /\ clipboard # << >>
         /\ file_path # clipboard_source_image)
            => LET kept == { i \in 1..Len(clipboard) : ~HasDuplicate(i) }
                   new  == DOMAIN shapes_to_items' \ DOMAIN obj
               IN /\ clipboard' = clipboard
                  /\ \A i \in 1..Len(clipboard) : obj'[clipboard[i]] = obj[clipboard[i]]
                  /\ last'.pasted = Cardinality(kept)
                  /\ last'.skipped = Len(clipboard) - Cardinality(kept)
                  /\ Cardinality(new) = Cardinality(kept)
                  /\ Cardinality(DOMAIN shapes_to_items') = Cardinality(Stored) + Cardinality(kept)
                  /\ \A i \in kept : \E y \in new : /\ InList(canvas_shapes', y)
                                                      /\ IsCopy(y, clipboard[i]) ]_vars

\* one shape was pasted onto another image that holds an identical shape: no
\* shape is added and one skip is reported
C20_Witness ==
    /\ last.op = "paste_selected_boxes"
    /\ file_path # clipboard_source_image
    /\ Len(clipboard) = 1
    /\ last.pasted = 0 /\ last.skipped = 1

\* C21: after a paste with a non-empty clipboard every shape the paste put on the
\* canvas has a row in the shape index, and the number of skipped entries that
\* is reported is the clipboard size minus the number of inserted shapes.
C21_PastedAreRegistered ==
    [][ (last'.op = "paste_selected_boxes" /\ clipboard # << >>)
            => LET inserted == Range(canvas_shapes') \ Range(canvas_shapes)
               IN /\ \A y \in inserted :
                        /\ y \in DOMAIN shapes_to_items'
                        /\ InList(label_list', shapes_to_items'[y])
                        /\ items_to_shapes'[shapes_to_items'[y]] = y
                        /\ item_text'[shapes_to_items'[y]] = obj'[y].label
                  /\ last'.pasted = Cardinality(inserted)
                  /\ last'.pasted + last'.skipped = Len(clipboard) ]_vars

\* a paste has inserted a shape next to the shape it was copied from
C21_Witness ==
    /\ last.op = "paste_selected_boxes"
    /\ last.pasted = 1
    /\ Cardinality(DOMAIN shapes_to_items) = 2
    /\ Range(canvas_shapes) = DOMAIN shapes_to_items

NavOps == { "import_dir_images", "open_next_image", "open_prev_image", "go_to_image",
            "open_file", "close_file" }

\* C29: a handler that loads or closes an image (load_file, reached from
\* open_next_image, open_prev_image, go_to_image, open_file and import_dir_images,
\* and close_file) leaves the clipboard, the shapes in it and the image the
\* clipboard was copied from as they were.
C29_NavigationKeepsClipboard ==
    [][ last'.op \in NavOps
            => /\ clipboard' = clipboard
               /\ clipboard_source_image' = clipboard_source_image
               /\ \A y \in Range(clipboard) : y \in DOMAIN obj' /\ obj'[y] = obj[y] ]_vars

\* go_to_image has loaded another image than the one the clipboard was copied from
C29_Witness ==
    /\ last.op = "go_to_image"
    /\ last.ok = "True"
    /\ clipboard # << >>
    /\ clipboard_source_image \notin {NoPath, file_path}

\* the handlers that start with the auto-save
AutoSaveOps == { "open_next_image", "open_prev_image", "go_to_image" }

\* the image the handler goes to is an entry of m_img_list
HasTarget(op) ==
    CASE op = "open_next_image" ->
            cur_img_idx + 1 < img_count /\ cur_img_idx + 2 <= Len(m_img_list)
      [] op = "open_prev_image" ->
            img_count > 0 /\ cur_img_idx >= 1 /\ cur_img_idx <= Len(m_img_list)
      [] op = "go_to_image" ->
            img_count > 0 /\ img_count <= Len(m_img_list)
      [] OTHER -> FALSE

\* load_file has been called for the entry of m_img_list at the new position
WentToTarget ==
    /\ last'.ok # None
    /\ (last'.ok = "True" => /\ cur_img_idx' + 1 <= Len(m_img_list')
                             /\ file_path' = m_img_list'[cur_img_idx' + 1])

C30_NoReadOutOfRange ==
    last.op \in NavOps => last.err # "IndexError"

\* the lines of the YOLO file that was read whose class index is outside the class list
BadLines == { i \in 1..Len(last.yolo.indices) : last.yolo.indices[i] >= last.yolo.nclasses }

\* C23: when a YOLO file with a class index outside the class list has been
\* loaded, the shapes of those lines are not in the store and the file has been
\* written again without them by the time the load returns (the write precedes
\* the message to the user); when no index is invalid, no write is made.
C23_InvalidLinesCleanedOnLoad ==
    last.yolo.was_read
        => /\ BadLines # {}
                 => /\ last.cleaned = "ok"
                    /\ Len(last.read) = Len(last.yolo.indices) - Cardinality(BadLines)
           /\ BadLines = {} => last.cleaned = None

\* C24: when a YOLO file has n lines whose class index is not below the length
\* of the class list, the shapes that are loaded are those of the other lines,
\* the count reported for each invalid index is the number of lines that carry
\* it, and the reported total is n.
C24_InvalidLinesCounted ==
    last.yolo.was_read
        => /\ last.yolo.total = Cardinality(BadLines)
           /\ DOMAIN last.yolo.invalid = { last.yolo.indices[i] : i \in BadLines }
           /\ \A k \in DOMAIN last.yolo.invalid :
                 last.yolo.invalid[k]
                     = Cardinality({ i \in BadLines : last.yolo.indices[i] = k })
           /\ Len(last.read) = Len(last.yolo.indices) - Cardinality(BadLines)
           /\ last.ok = "True"
                 => /\ Len(label_list) = Len(last.read)
                    /\ Len(canvas_shapes) = Len(last.read)
                    /\ Cardinality(DOMAIN shapes_to_items) = Len(last.read)

\* a file of three lines has been read, two of them with the same invalid index
C24_Witness ==
    /\ last.yolo.was_read
    /\ last.ok = "True"
    /\ Len(last.yolo.indices) = 3
    /\ last.yolo.total = 2
    /\ Cardinality(DOMAIN last.yolo.invalid) = 1
    /\ Len(label_list) = 1

\* p ends in the extension e, whatever the case of its letters
EndsWith(p, e) ==
    /\ Len(p) >= Len(e)
    /\ \A i \in 1..Len(e) :
          p[Len(p) - Len(e) + i] \in { e[i], Upper(e[i]) }

\* C25: the path save_labels hands to the writer ends in the extension of the
\* active format, whatever the case of its letters: the path it was given when
\* that already ends in the extension, else that path with the extension appended.
C25_WrittenPathHasExtension ==
    codec.done
        => LET e == CharsOf(SuffixOf(codec.format))
           IN /\ EndsWith(codec.written, e)
              /\ EndsWith(codec.path, e) => codec.written = codec.path
              /\ ~EndsWith(codec.path, e) => codec.written = codec.path \o e

\* a path that ends in the extension in upper case has been kept as it is
C25_Witness ==
    /\ codec.done
    /\ codec.format = PASCAL_VOC
    /\ codec.path = << "a", ".", "X", "M", "L" >>
    /\ codec.written = codec.path

\* C27: in every state each stored shape (none has a colour of its own: the
\* handlers that set one are not run) is drawn, line and fill, in the colour of
\* its label under the colour map as it is now, and its row has that colour as
\* background.
C27_ShownColourIsClassColour ==
    \A y \in DOMAIN shapes_to_items :
        /\ obj[y].line_color = ClassColor(S, obj[y].label)
        /\ obj[y].fill_color = ClassColor(S, obj[y].label)
        /\ item_flags[shapes_to_items[y]].background = ClassColor(S, obj[y].label)

\* |a - b| <= e
Near(a, b, e) == a - b <= e /\ b - a <= e

----------------------------------------------------------------------------
(* The file list *)

\* an image of the directory list is open
ListImageOpen == file_path # NoPath /\ InList(m_img_list, file_path)

\* C31: whenever an image of the directory list is open, the navigation index
\* names it, m_img_list[cur_img_idx] == file_path, and img_count is the length of
\* m_img_list, after any sequence of import_dir_images, open_next_image,
\* open_prev_image, go_to_image, file_item_double_clicked, load_recent and
\* delete_image.
C31_IndexNamesOpenImage ==
    ListImageOpen
        => /\ cur_img_idx >= 0
           /\ cur_img_idx < Len(m_img_list)
           /\ m_img_list[cur_img_idx + 1] = file_path
           /\ img_count = Len(m_img_list)

\* the window is at the first image of the directory, with no unsaved changes
AtFirstImage ==
    /\ m_img_list # << >>
    /\ cur_img_idx = 0
    /\ file_path = m_img_list[1]
    /\ ~dirty

\* open_next_image is called on an open image of the list with no unsaved changes
NextOnOpenImage ==
    /\ last'.op = "open_next_image"
    /\ ListImageOpen
    /\ cur_img_idx + 1 <= Len(m_img_list)
    /\ m_img_list[cur_img_idx + 1] = file_path
    /\ ~dirty

\* open_next_image advances the index by exactly one until the last image is
\* reached, and leaves it there afterwards
C32_AdvancesByOne ==
    [][ NextOnOpenImage
            => cur_img_idx' = IF cur_img_idx + 1 < Len(m_img_list)
                              THEN cur_img_idx + 1 ELSE cur_img_idx ]_vars

\* from the first image the last image is reached, unless changes become unsaved
C32_LastIsReached ==
    AtFirstImage ~> (dirty \/ cur_img_idx = Len(m_img_list) - 1)

\* C32: starting at the first image of a directory of n images with no unsaved
\* changes, repeated open_next_image calls advance the current index by exactly
\* one per call until the last image is reached, and further calls leave it
\* there; the last image is eventually reached also when some image in the list
\* fails to load.
C32_NextWalksToLast == C32_AdvancesByOne /\ C32_LastIsReached

\* clamp(n, lo, hi)
ClampTo(n, lo, hi) == IF n < lo THEN lo ELSE IF n > hi THEN hi ELSE n

\* go_to_image has run with an integer in the field and img_count >= 1
WentWithNumber ==
    last'.op = "go_to_image" /\ last'.input.kind = "int" /\ img_count >= 1

\* go_to_image has run with an empty field or with a text that is no number
WentWithoutNumber ==
    last'.op = "go_to_image" /\ last'.input.kind \in {"empty", "text"}

\* no navigation or store state has changed
NothingMoved ==
    /\ cur_img_idx' = cur_img_idx
    /\ img_count' = img_count
    /\ m_img_list' = m_img_list
    /\ file_path' = file_path
    /\ dirty' = dirty
    /\ canvas_shapes' = canvas_shapes
    /\ shapes_to_items' = shapes_to_items
    /\ items_to_shapes' = items_to_shapes
    /\ label_list' = label_list
    /\ item_text' = item_text
    /\ obj' = obj

GoReturnsEarly ==
    \/ auto_saving /\ default_save_dir = None
    \/ last'.answer = "Cancel"

----------------------------------------------------------------------------
(* Unsaved changes *)

\* C34: dirty is True only while an image is open: in every reachable state
\* dirty == True implies file_path is not None, so that save_file is never
\* invoked (by the Save action, by auto-save or by the unsaved-changes prompt)
\* without a current image.
C34_DirtyOnlyWithImage ==
    /\ dirty => file_path # NoPath
    /\ last.err # "TypeError"      \* save_file: os.path.dirname(None)

\* the handlers that start with may_continue, after the auto-save when they
\* make one
GuardedOps == { "open_next_image", "open_prev_image", "go_to_image", "open_file",
                "close_file", "import_dir_images", "load_recent" }

\* the guarded handlers that call may_continue first of all
AskFirstOps == { "open_file", "close_file", "import_dir_images", "load_recent" }

----------------------------------------------------------------------------
(* Annotation files *)

\* the store and the canvas are empty
NothingLoaded ==
    /\ canvas_shapes' = << >>
    /\ shapes_to_items' = EmptyMap
    /\ items_to_shapes' = EmptyMap
    /\ label_list' = << >>
    /\ last'.read = << >>
    /\ ~last'.yolo.was_read

\* the labels of the shapes of the store, in the order of the rows
RowLabels == [ i \in 1..Len(label_list) |-> item_text[label_list[i]] ]

\* C36: when several annotation files exist for an image, exactly one is
\* loaded, chosen by the priority PascalVOC .xml > YOLO .txt > CreateML .json,
\* and the others are ignored; when none exists no shape is loaded and the
\* store stays empty.
C36_OneFileByPriority ==
    [][ last'.ok = "True"
            => /\ (Cardinality(last'.found) >= 2 /\ PASCAL_VOC \in last'.found)
                     => /\ label_file_format' = PASCAL_VOC
                        /\ ~last'.yolo.was_read
                        /\ Len(canvas_shapes') = Len(last'.read)
                        /\ RowLabels' = [ i \in 1..Len(last'.read) |-> last'.read[i].label ]
               /\ (Cardinality(last'.found) >= 2 /\ PASCAL_VOC \notin last'.found)
                     => /\ label_file_format' = YOLO
                        /\ last'.yolo.was_read
                        /\ Len(canvas_shapes') = Len(last'.read)
               /\ last'.found = {} => NothingLoaded ]_vars

\* an image with an annotation file of each of the three formats was opened
\* while the format was YOLO, and the shape of the PascalVOC file is in the store
C36_Witness ==
    /\ last.ok = "True"
    /\ last.found = Formats
    /\ label_file_format = PASCAL_VOC
    /\ ~last.yolo.was_read
    /\ Len(canvas_shapes) = 1
    /\ Len(label_list) = 1

\* C37 as stated: the active save format changes only through change_format:
\* loading an image or an annotation file (load_file,
\* show_bounding_box_from_annotation_file, copy_previous_bounding_boxes) leaves
\* label_file_format and the file suffix as the user last selected them.
C37_FormatOnlyByChangeFormat ==
    [][ last'.op # "change_format"
            => label_file_format' = label_file_format /\ suffix' = suffix ]_vars

\* the format of the annotation file that the handler has read, None when it
\* has read none
FormatRead ==
    IF PASCAL_VOC \in last'.found THEN PASCAL_VOC
    ELSE IF YOLO \in last'.found THEN YOLO
    ELSE IF CREATE_ML \in last'.found /\ default_save_dir' # None THEN CREATE_ML
    ELSE None

\* C37, amended: the active save format changes only through change_format and
\* through the loading of an annotation file: a load that reads an annotation
\* file sets label_file_format and the file suffix to the format of that file,
\* and a load that reads none leaves them as the user last selected them.
C37_FormatByChangeFormatOrFileRead ==
    [][ last'.op # "change_format"
            => /\ FormatRead = None
                    => label_file_format' = label_file_format /\ suffix' = suffix
               /\ FormatRead = PASCAL_VOC
                    => label_file_format' = PASCAL_VOC /\ suffix' = XML_EXT
               /\ FormatRead = YOLO
                    => label_file_format' = YOLO /\ suffix' = TXT_EXT
               /\ FormatRead = CREATE_ML
                    => label_file_format' = CREATE_ML /\ suffix' = JSON_EXT ]_vars

\* the first handler of the session has opened a directory whose first image
\* has a PascalVOC file: the format, YOLO at the start, is now PascalVOC
C37_Witness ==
    /\ steps = 1
    /\ last.op = "import_dir_images"
    /\ last.ok = "True"
    /\ last.found = {PASCAL_VOC}
    /\ label_file_format = PASCAL_VOC
    /\ suffix = XML_EXT

----------------------------------------------------------------------------
(* Drawing and deleting *)

\* the label dialog of new_shape was cancelled, or the text is a new class and
\* the user declined to add it
NewShapeRefused ==
    /\ last'.op = "new_shape"
    /\ \/ last'.input.text = None
       \/ ~InList(label_hist, last'.input.text) /\ last'.input.n = 0

\* C38: if the label prompt of new_shape is cancelled (no text) or the user
\* declines to add a label that is not in label_hist, the in-progress drawing
\* is discarded and shapes_to_items, items_to_shapes, label_list, label_hist,
\* prev_label_text and dirty are unchanged.
C38_RefusedShapeLeavesNoTrace ==
    [][ NewShapeRefused
            => /\ canvas_shapes' = canvas_shapes
               /\ obj' = obj
               /\ shapes_to_items' = shapes_to_items
               /\ items_to_shapes' = items_to_shapes
               /\ label_list' = label_list
               /\ item_text' = item_text
               /\ label_hist' = label_hist
               /\ prev_label_text' = prev_label_text
               /\ dirty' = dirty ]_vars

\* a second rectangle was drawn on an image that has a shape, the label typed
\* for it is not a class yet, and adding the class was declined
C38_Witness ==
    /\ last.op = "new_shape"
    /\ last.input.text = "dog"
    /\ last.input.n = 0
    /\ ~InList(label_hist, "dog")
    /\ Len(canvas_shapes) = 1
    /\ Len(label_list) = 1
    /\ prev_label_text = "cat"

\* label_list.itemSelectionChanged in edit mode: rows of the label list are
\* clicked. One row selects its shape through canvas.select_shape; several
\* rows are written into canvas.selected_shapes without a signal.
label_selection_changed(s, items) ==
    IF items = {} THEN s
    ELSE IF Cardinality(items) = 1
    THEN LET item == CHOOSE i \in items : TRUE
         IN IF item \in DOMAIN s.items_to_shapes
            THEN canvas_select_shape(s, s.items_to_shapes[item])
            ELSE s
    ELSE [ s EXCEPT !.selected_shapes =
                        { s.items_to_shapes[i] : i \in items \cap DOMAIN s.items_to_shapes } ]

MaxDeleteSteps == 5    \* handlers run in a session that ends in a deletion

\* the directory is opened once; every write succeeds and nothing is asked
Delete_import_dir_images ==
    /\ steps < MaxDeleteSteps
    /\ m_img_list = << >>
    /\ \E io \in WalkIO :
         Apply(import_dir_images(Begin(S, "import_dir_images"), Dir, io))

Delete_open_next_image ==
    /\ steps < MaxDeleteSteps
    /\ m_img_list # << >>
    /\ \E io \in WalkIO :
         Apply(open_next_image(Begin(S, "open_next_image"), io))

Delete_copy_previous_bounding_boxes ==
    /\ steps < MaxDeleteSteps
    /\ file_path # NoPath
    /\ \E io \in WalkIO :
         /\ io.kind = "image"
         /\ Free(Len(io.lines))
         /\ Apply(copy_previous_bounding_boxes(
                     Begin(S, "copy_previous_bounding_boxes"),
                     [ io EXCEPT !.savedlg = "saved_path" ]))

Delete_label_selection_changed ==
    /\ steps < MaxDeleteSteps
    /\ canvas_enabled
    /\ \E items \in SUBSET Range(VisibleRows(S)) :
         /\ items # {}
         /\ Apply(label_selection_changed(Begin(S, "label_selection_changed"), items))

Delete_select_all_boxes ==
    /\ steps < MaxDeleteSteps
    /\ shapes_present_enabled
    /\ Apply(select_all_boxes(Begin(S, "select_all_boxes")))

Delete_delete_selected_shape ==
    /\ steps < MaxDeleteSteps
    /\ canvas_enabled /\ selected_shapes # {}
    /\ Apply(delete_selected_shape(Begin(S, "delete_selected_shape")))

NextDelete ==
    \/ Delete_import_dir_images
    \/ Delete_open_next_image
    \/ Delete_copy_previous_bounding_boxes
    \/ Delete_label_selection_changed
    \/ Delete_select_all_boxes
    \/ Delete_delete_selected_shape

SpecDelete == Init /\ [][NextDelete]_vars

\* the list l without the entries for which gone holds, in the order of l
Without(l, gone) ==
    LET Kept(x) == x \notin gone IN SelectSeq(l, Kept)

\* the rows of the selected shapes
RowsOf(shapes) ==
    { i \in DOMAIN items_to_shapes : items_to_shapes[i] \in shapes }

\* C39: delete_selected_shape removes exactly the selected shapes: afterwards
\* none of them is in the canvas shapes, shapes_to_items, items_to_shapes or
\* label_list, every non-selected shape and its row are retained in their
\* original order, and dirty is True.
C39_DeletesExactlySelected ==
    [][ last'.op = "delete_selected_shape" /\ selected_shapes # {}
            => /\ canvas_shapes' = Without(canvas_shapes, selected_shapes)
               /\ DOMAIN shapes_to_items' = DOMAIN shapes_to_items \ selected_shapes
               /\ \A sh \in DOMAIN shapes_to_items' :
                      shapes_to_items'[sh] = shapes_to_items[sh]
               /\ DOMAIN items_to_shapes' = DOMAIN items_to_shapes \ RowsOf(selected_shapes)
               /\ \A i \in DOMAIN items_to_shapes' :
                      items_to_shapes'[i] = items_to_shapes[i]
               /\ label_list' = Without(label_list, RowsOf(selected_shapes))
               /\ dirty' ]_vars

----------------------------------------------------------------------------
(* Opening a directory *)

\* C40: open_dir_dialog(dir_path=D, silent=True) imports directory D:
\* afterwards dir_name == D and last_open_dir == D, independently of the
\* previously stored last_open_dir and of file_path. (Checked for the calls
\* made with no unsaved changes, so that nothing is asked before the import.)
C40_SilentOpenImportsGivenDir ==
    [][ /\ last'.op = "open_dir_dialog"
        /\ last'.input.kind = "silent"
        /\ ~dirty
            => /\ dir_name' = last'.input.text
               /\ last_open_dir' = last'.input.text ]_vars
====
